---- MODULE Spec2Model ----
(***************************************************************************)
(* A model of the Karapace charm (canonical/karapace-operator): the fleet  *)
(* of units sharing the peer relation's application databag, the Kafka     *)
(* requirer relation, the per-unit TLS material, the rendered config and   *)
(* authorization files, the snap service and the rolling-restart lock.     *)
(*                                                                         *)
(* Each hook handler is one atomic action (one unit runs one handler to    *)
(* completion; units interleave).  The variable ev records what the last   *)
(* handler was, on which unit, with which inputs and with which effects.   *)
(*                                                                         *)
(* Reading conventions for the Python source:                              *)
(*  - a databag value is a string, "" when the key is unset;               *)
(*  - a state object built on an absent relation is falsy (the handlers    *)
(*    test "not self.kafka", "not self.context.peer_relation");            *)
(*  - a non-boolean operand of a boolean operator counts by truthiness     *)
(*    (Kafka.tls returns the databag string itself).                       *)
(***************************************************************************)
EXTENDS Integers, Sequences, FiniteSets, TLC

\* ------------------------------------------------------------------ bounds

\* Passwords generate_password() may return (1..MaxPasswords).
MaxPasswords == 2
\* Private keys generate_private_key() may return (1..MaxKeys).
MaxKeys == 2
\* CSRs generate_csr() may issue in one run (each CSR carries a fresh serial).
MaxCsr == 2

\* --------------------------------------------------------------- constants

Units == {0, 1}

\* The client relations of the model, by relation id.
ClientRels == {5000}

PORT == 8081
STATSD_PORT == 8125

ADMIN_USER == "operator"
INTERNAL_USERS == {ADMIN_USER}
KAFKA_TOPIC == "_schemas"
KAFKA_CONSUMER_GROUP == "schema-registry"

Passwords == 1 .. MaxPasswords
Keys == 1 .. MaxKeys

\* "no such file" for a path of the workload.
NoFile == <<>>
File(content) == <<content>>
Content(file) == file[1]

\* Status (literals.py): the message of each status of the charm.
ACTIVE == "active"
NO_PEER_RELATION == "no peer relation yet"
SERVICE_NOT_RUNNING == "karapace service not running"
KAFKA_NOT_RELATED == "missing required kafka relation"
KAFKA_NOT_CONNECTED == "unit not connected to kafka"
KAFKA_TLS_MISMATCH == "tls must be enabled on both karapace and kafka"
KAFKA_NO_DATA == "kafka credentials not created yet"
NO_CREDS == "internal credentials not yet added"
\* Statuses charm.py sets directly, outside the Status enum.
WAITING_PEER == "waiting for peer relation"
WAITING_CONFIG == "Waiting on config"
\* The unit's status before any handler has set one.
UNSET == "unknown"

\* KarapacePaths (core/workload.py), with PATHS["CONF"] = "/etc/karapace".
karapace_config == "/etc/karapace/karapace.config.json"
registry_authfile == "/etc/karapace/authfile.json"
ssl_cafile == "/etc/karapace/cacert.pem"
ssl_certfile == "/etc/karapace/cert.pem"
ssl_keyfile == "/etc/karapace/private.key"

\* ------------------------------------------------- Python and JSON values

\* A Python value of the config dict.
PyNone == [t |-> "none"]
PyBool(b) == [t |-> "bool", b |-> b]
PyInt(n) == [t |-> "int", n |-> n]
PyStr(s) == [t |-> "str", s |-> s]

\* Python's ==: bool is a subclass of int (True == 1, False == 0).
PyNum(v) == IF v.t = "bool" THEN (IF v.b THEN 1 ELSE 0) ELSE v.n
PyIsNum(v) == v.t \in {"bool", "int"}
PyEq(a, b) ==
    IF PyIsNum(a) /\ PyIsNum(b) THEN PyNum(a) = PyNum(b) ELSE a = b

\* dict.__eq__: the same keys, and equal values under each key.
PyDictEq(d1, d2) ==
    LET a == d1
        b == d2
    IN  /\ DOMAIN a = DOMAIN b
        /\ \A k \in DOMAIN a : PyEq(a[k], b[k])

\* A mutant of json_dumps_value: None is written as the empty string (as
\* set_environment does for /etc/environment).
json_dumps_value_none_as_empty(v) ==
    CASE v.t = "none" -> [j |-> "string", s |-> ""]
      [] v.t = "bool" -> [j |-> (IF v.b THEN "true" ELSE "false")]
      [] v.t = "int" -> [j |-> "number", n |-> v.n]
      [] v.t = "str" -> [j |-> "string", s |-> v.s]

\* json.dumps of one value: the JSON token it is written as.
json_dumps_value(v) ==
    CASE v.t = "none" -> [j |-> "null"]
      [] v.t = "bool" -> [j |-> (IF v.b THEN "true" ELSE "false")]
      [] v.t = "int" -> [j |-> "number", n |-> v.n]
      [] v.t = "str" -> [j |-> "string", s |-> v.s]

\* json.loads of one token.
json_loads_value(x) ==
    CASE x.j = "null" -> PyNone
      [] x.j = "true" -> PyBool(TRUE)
      [] x.j = "false" -> PyBool(FALSE)
      [] x.j = "number" -> PyInt(x.n)
      [] x.j = "string" -> PyStr(x.s)

\* json.dumps / json.loads of a flat dict with string keys.
json_dumps(d) == LET v == d IN [k \in DOMAIN v |-> json_dumps_value(v[k])]
json_loads(f) == LET v == f IN [k \in DOMAIN v |-> json_loads_value(v[k])]

\* The empty dict {}.
EmptyDict == [k \in {} |-> PyNone]

Min(a, b) == IF a < b THEN a ELSE b

\* Python truthiness of a string.
Truthy(s) == s # ""

\* ------------------------------------------------------------------- state

VARIABLES
    peer,         \* the peer relation "cluster" exists
    leader,       \* the unit Juju has elected leader
    cluster,      \* the peer relation's application databag and its secrets
    kafka,        \* the kafka-client relation and the remote application's databag
    cfg,          \* the charm's config options
    kafka_up,     \* the brokers answer describe_topics
    tls_rel,      \* the certificates relation exists
    tls_seen,     \* per unit: the last certificates relation event it handled
    server,       \* per unit: the unit's databag on the peer relation (TLS fields)
    disk,         \* per unit: the key, certificate and CA files
    confile,      \* per unit: karapace.config.json
    authfile,     \* per unit: authfile.json
    service,      \* per unit: the snap service is active
    status,       \* per unit: the unit's status message
    lock,         \* per unit: the unit's rolling-restart lock state
    clients,      \* per client relation: it exists, and the remote application's databag
    provided,     \* per client relation: what this application has written to it
    ca_requests,  \* the CSRs submitted to the certificates provider so far
    csr_seq,      \* CSRs generated so far
    auth_dict,    \* the users and ACLs a KarapaceAuth object holds in memory
    ev            \* what the last handler was and did

vars == <<peer, leader, cluster, kafka, cfg, kafka_up, tls_rel, tls_seen, server,
          disk, confile, authfile, service, status, lock, clients, provided,
          ca_requests, csr_seq, auth_dict, ev>>

\* An unset password / key / CSR / certificate / CA ("" in the databag).
NoPassword == 0
NoKey == 0
NoCsr == [key |-> NoKey, n |-> 0]
NoCert == [csr |-> NoCsr]
NoCa == ""
TheCa == "ca-chain"

\* The unit's own address data in its peer databag (set by Juju).
unit_data(u) == [hostname |-> "", ip |-> "", private_address |-> IF u = 0 THEN "10.0.0.10" ELSE "10.0.0.11"]

\* ev before any handler has run.
NoEv == [kind |-> "none", unit |-> 0, outcome |-> "done", started |-> FALSE,
         restarted |-> FALSE, drift |-> "n/a", healthy |-> "n/a", csr |-> NoCsr,
         bootstrapped |-> FALSE, lock_requested |-> FALSE,
         username |-> "", password |-> NoPassword, role |-> "", replace |-> FALSE,
         hashed |-> FALSE, result |-> NoPassword, key |-> NoKey, planned_units |-> 1]

\* The remote Kafka application's databag: nothing advertised yet, credentials
\* advertised before the topic, and everything advertised.
KafkaNoData == [related |-> TRUE, topic |-> "", username |-> "", password |-> "",
                endpoints |-> "", tls |-> "", tls_ca |-> "", units |-> 0]
KafkaUnrelated == [KafkaNoData EXCEPT !.related = FALSE]
KafkaPartial == {[KafkaNoData EXCEPT !.username = "relation-7", !.password = "kafka-secret",
                                     !.tls = t, !.units = 1] : t \in {"", "enabled"}}
KafkaFull == {[related |-> TRUE, topic |-> KAFKA_TOPIC, username |-> "relation-7",
               password |-> "kafka-secret", endpoints |-> e.uris, tls |-> t,
               tls_ca |-> "", units |-> e.units] :
              e \in {[uris |-> "10.1.0.1:9092", units |-> 1],
                     [uris |-> "10.1.0.1:9092,10.1.0.2:9092,10.1.0.3:9092,10.1.0.4:9092", units |-> 4]},
              t \in {"", "enabled", "disabled"}}

\* A client relation: absent, and related with a subject requested.
NoClient == [related |-> FALSE, subject |-> "", extra_user_roles |-> ""]
ClientRequests == {[related |-> TRUE, subject |-> "test-subject", extra_user_roles |-> x] :
                   x \in {"user", "admin", "", "admin,user"}}
NothingProvided == [endpoints |-> "", username |-> "", password |-> NoPassword,
                    tls |-> "", subject |-> ""]

\* The charm's config options: unset, both set, only the password set.
CfgUnset == [karapace_password |-> "", bootstrap_servers |-> "", username |-> ""]
CfgSet == [karapace_password |-> "pw", bootstrap_servers |-> "10.1.0.1:9092", username |-> "karapace"]
CfgPartial == [CfgSet EXCEPT !.bootstrap_servers = ""]

Init ==
    /\ peer = FALSE
    /\ leader \in Units
    /\ cluster = [tls |-> "", config_changed |-> "",
                  passwords |-> [x \in INTERNAL_USERS |-> NoPassword],
                  client_passwords |-> [r \in ClientRels |-> NoPassword],
                  super_users |-> {}]
    /\ kafka = KafkaUnrelated
    /\ cfg \in {CfgUnset, CfgSet}
    /\ kafka_up = TRUE
    /\ tls_rel = FALSE
    /\ tls_seen = [u \in Units |-> "none"]
    /\ server = [u \in Units |-> [private_key |-> NoKey, csr |-> NoCsr,
                                   certificate |-> NoCert, ca |-> NoCa]]
    /\ disk = [u \in Units |-> [keyfile |-> NoFile, certfile |-> NoFile, cafile |-> NoFile]]
    /\ confile = [u \in Units |-> NoFile]
    /\ authfile = [u \in Units |-> NoFile]
    /\ service = [u \in Units |-> FALSE]
    /\ status = [u \in Units |-> UNSET]
    /\ lock = [u \in Units |-> "idle"]
    /\ clients = [r \in ClientRels |-> NoClient]
    /\ provided = [r \in ClientRels |-> NothingProvided]
    /\ ca_requests = {}
    /\ csr_seq = 0
    /\ auth_dict = <<>>
    /\ ev = NoEv


\* ------------------------------------------------------ state objects (core)

\* A mutant of is_leader: every unit takes itself for the leader.
is_leader_always(u) == TRUE

\* unit.is_leader() on unit u.
is_leader(u) == leader = u

\* KarapaceServer.host on the vm substrate: the first non-empty of hostname,
\* ip and private-address in the unit's databag; "" without a peer relation.
host(u) ==
    IF ~peer THEN ""
    ELSE IF unit_data(u).hostname # "" THEN unit_data(u).hostname
    ELSE IF unit_data(u).ip # "" THEN unit_data(u).ip
    ELSE unit_data(u).private_address

\* KarapaceServer.unit_id as the text of "sr-<unit id>".
client_id(u) == IF u = 0 THEN "sr-0" ELSE "sr-1"

\* KarapaceCluster.internal_user_credentials: the published passwords of the
\* internal users, or {} unless every internal user has one.
internal_user_credentials ==
    LET credentials == [x \in {y \in INTERNAL_USERS : cluster.passwords[y] # NoPassword}
                            |-> cluster.passwords[x]]
    IN  IF Cardinality(DOMAIN credentials) # Cardinality(INTERNAL_USERS)
        THEN [x \in {} |-> NoPassword]
        ELSE credentials

\* A mutant of no_internal_user_credentials: the published credentials are
\* never looked at.
no_internal_user_credentials_unread == TRUE

\* "not self.context.cluster.internal_user_credentials": the dict is empty.
no_internal_user_credentials == DOMAIN internal_user_credentials = {}

\* KarapaceCluster.tls_enabled.
tls_enabled == cluster.tls = "enabled"

\* Kafka.tls: the databag's "tls" value itself, used as a boolean.
kafka_tls == Truthy(kafka.tls)

\* Kafka.kafka_ready.
kafka_ready ==
    Truthy(kafka.topic) /\ Truthy(kafka.username) /\ Truthy(kafka.password)
        /\ Truthy(kafka.endpoints)

\* The security protocol of the Kafka connection.
kafka_security_protocol == IF kafka_tls THEN "SASL_SSL" ELSE "SASL_PLAINTEXT"

\* ClusterContext.ready_to_start.
ready_to_start ==
    IF ~peer THEN NO_PEER_RELATION
    ELSE IF ~kafka.related THEN KAFKA_NOT_RELATED
    ELSE IF ~kafka_ready THEN KAFKA_NO_DATA
    ELSE IF tls_enabled # kafka_tls THEN KAFKA_TLS_MISMATCH
    ELSE IF no_internal_user_credentials THEN NO_CREDS
    ELSE ACTIVE

\* A mutant of healthy: the service is not looked at.
healthy_without_service(u) ==
    IF ready_to_start # ACTIVE THEN [ok |-> FALSE, status |-> ready_to_start]
    ELSE [ok |-> TRUE, status |-> ACTIVE]

\* KarapaceCharm.healthy on unit u: [ok, status], status being the unit's
\* status after the check.
healthy(u) ==
    IF ready_to_start # ACTIVE THEN [ok |-> FALSE, status |-> ready_to_start]
    ELSE IF ~service[u] THEN [ok |-> FALSE, status |-> SERVICE_NOT_RUNNING]
    ELSE [ok |-> TRUE, status |-> ACTIVE]

\* ------------------------------------------------------- config (managers)

\* ConfigManager.base_config for unit u.
base_config(u) ==
    IF ~kafka.related THEN EmptyDict
    ELSE
    [karapace_rest |-> PyBool(FALSE),
     karapace_registry |-> PyBool(TRUE),
     advertised_hostname |-> PyStr(host(u)),
     advertised_protocol |-> PyStr("http"),
     advertised_port |-> PyNone,
     client_id |-> PyStr(client_id(u)),
     master_eligibility |-> PyBool(TRUE),
     host |-> PyStr(host(u)),
     port |-> PyInt(PORT),
     server_tls_certfile |-> PyNone,
     server_tls_keyfile |-> PyNone,
     access_logs_debug |-> PyBool(FALSE),
     rest_authorization |-> PyBool(FALSE),
     compatibility |-> PyStr("FULL"),
     log_level |-> PyStr("INFO"),
     protobuf_runtime_directory |-> PyStr("runtime"),
     session_timeout_ms |-> PyInt(10000),
     topic_name |-> PyStr(KAFKA_TOPIC),
     group_id |-> PyStr(KAFKA_CONSUMER_GROUP),
     replication_factor |-> PyInt(Min(3, kafka.units)),
     security_protocol |-> PyStr(kafka_security_protocol),
     ssl_cafile |-> IF tls_enabled THEN PyStr(ssl_cafile) ELSE PyNone,
     ssl_certfile |-> IF tls_enabled THEN PyStr(ssl_certfile) ELSE PyNone,
     ssl_keyfile |-> IF tls_enabled THEN PyStr(ssl_keyfile) ELSE PyNone,
     bootstrap_uri |-> PyStr(kafka.endpoints),
     sasl_bootstrap_uri |-> PyStr(kafka.endpoints),
     sasl_mechanism |-> PyStr("SCRAM-SHA-512"),
     sasl_plain_username |-> PyStr(kafka.username),
     sasl_plain_password |-> PyStr(kafka.password),
     registry_authfile |-> PyStr(registry_authfile),
     registry_ca |-> PyNone,
     statsd_host |-> PyStr(host(u)),
     statsd_port |-> PyInt(STATSD_PORT)]

\* ConfigManager.otel_config.
otel_config ==
    IF ~kafka.related THEN EmptyDict
    ELSE
    [otel_endpoint_url |-> PyStr("http://localhost:OTEL_GRPC_PORT"),
     otel_metrics_exporter |-> PyStr("OTLP"),
     otel_traces_exporter |-> PyStr("NOOP")]

\* dict | dict: the right operand's keys win.
DictUnion(d1, d2) == d2 @@ d1

\* ConfigManager.config for unit u.
config(u) == DictUnion(base_config(u), otel_config)

\* ConfigManager.parsed_confile of a file's content: {} when there is no file.
parsed_confile(file) == IF file = NoFile THEN EmptyDict ELSE json_loads(Content(file))

\* ConfigManager.write_config_file for unit u: the content written.
write_config_file(u) == File(json_dumps(config(u)))

\* The drift test of _on_config_changed: rendered_file != config.
drift(u, file) == ~PyDictEq(parsed_confile(file), config(u))


\* --------------------------------------------------------- auth (managers)

\* workload.mkpasswd: the credentials entry the hashing utility prints.
mkpasswd(username, password) ==
    [username |-> username, algorithm |-> "sha512", salt |-> "SALT",
     password_hash |-> <<"sha512", "SALT", password>>]

\* auth_dict is an insertion-ordered dict: a sequence of entries with
\* pairwise distinct usernames.
HasUser(ad, username) == \E i \in 1 .. Len(ad) : ad[i].username = username

\* auth_dict[username] = entry: in place when the key exists, appended otherwise.
DictSet(ad, entry) ==
    IF HasUser(ad, entry.username)
    THEN [i \in 1 .. Len(ad) |-> IF ad[i].username = entry.username THEN entry ELSE ad[i]]
    ELSE Append(ad, entry)

\* A mutant of load_authfile: every user is given every permission of the file.
load_authfile_unfiltered(file) ==
    IF file = NoFile THEN <<>>
    ELSE [i \in 1 .. Len(Content(file).users) |->
             [username |-> Content(file).users[i].username,
              credentials |-> Content(file).users[i],
              acls |-> Content(file).permissions]]

\* KarapaceAuth._load_authfile: the auth_dict read from a file's content.
load_authfile(file) ==
    IF file = NoFile THEN <<>>
    ELSE
    LET users == Content(file).users
        F[i \in 0 .. Len(users)] ==
            IF i = 0 THEN <<>>
            ELSE DictSet(F[i - 1],
                    [username |-> users[i].username, credentials |-> users[i],
                     acls |-> SelectSeq(Content(file).permissions,
                                        LAMBDA a : a.username = users[i].username)])
    IN  F[Len(users)]

\* A mutant of add_user: an existing user is always replaced.
add_user_always_replaces(ad, username, password, replace) ==
    DictSet(ad, [username |-> username,
                 credentials |-> mkpasswd(username, password), acls |-> <<>>])

\* KarapaceAuth.add_user.
add_user(ad, username, password, replace) ==
    IF HasUser(ad, username) /\ ~replace THEN ad
    ELSE DictSet(ad, [username |-> username,
                      credentials |-> mkpasswd(username, password), acls |-> <<>>])

\* add_user calls the hashing utility.
add_user_hashes(ad, username, replace) == ~(HasUser(ad, username) /\ ~replace)

\* A mutant of add_acl: a user that does not exist gets an entry that holds
\* the permissions and no credential.
add_acl_creates_entry(ad, username, role, subject) ==
    LET acls ==
            IF role = "admin"
            THEN <<[username |-> username, operation |-> "Write", resource |-> <<".*">>]>>
            ELSE IF role = "user"
            THEN <<[username |-> username, operation |-> "Read", resource |-> <<"Config:">>],
                   [username |-> username, operation |-> "Read",
                    resource |-> <<"Subject:", subject, ".*">>]>>
            ELSE <<>>
    IN  IF ~HasUser(ad, username)
        THEN Append(ad, [username |-> username,
                         credentials |-> [username |-> username, algorithm |-> "",
                                          salt |-> "", password_hash |-> <<>>],
                         acls |-> acls])
        ELSE [i \in 1 .. Len(ad) |->
                 IF ad[i].username = username THEN [ad[i] EXCEPT !.acls = acls] ELSE ad[i]]

\* A mutant of add_acl: the new rules are added to the ones the user holds.
add_acl_appends(ad, username, role, subject) ==
    IF ~HasUser(ad, username) THEN ad
    ELSE
    LET acls ==
            IF role = "admin"
            THEN <<[username |-> username, operation |-> "Write", resource |-> <<".*">>]>>
            ELSE <<[username |-> username, operation |-> "Read", resource |-> <<"Config:">>],
                   [username |-> username, operation |-> "Read",
                    resource |-> <<"Subject:", subject, ".*">>]>>
    IN  [i \in 1 .. Len(ad) |->
            IF ad[i].username = username THEN [ad[i] EXCEPT !.acls = @ \o acls] ELSE ad[i]]

\* KarapaceAuth.add_acl.
add_acl(ad, username, role, subject) ==
    IF ~HasUser(ad, username) THEN ad
    ELSE
    LET acls ==
            IF role = "admin"
            THEN <<[username |-> username, operation |-> "Write", resource |-> <<".*">>]>>
            ELSE IF role = "user"
            THEN <<[username |-> username, operation |-> "Read", resource |-> <<"Config:">>],
                   [username |-> username, operation |-> "Read",
                    resource |-> <<"Subject:", subject, ".*">>]>>
            ELSE <<>>
    IN  [i \in 1 .. Len(ad) |->
            IF ad[i].username = username THEN [ad[i] EXCEPT !.acls = acls] ELSE ad[i]]

\* A mutant of remove_user: the oldest entry is dropped, whatever its name.
remove_user_first(ad, username) == IF ad = <<>> THEN ad ELSE Tail(ad)

\* A mutant of remove_user: the entry stays.
remove_user_keeps_entry(ad, username) == ad

\* KarapaceAuth.remove_user.
remove_user(ad, username) == SelectSeq(ad, LAMBDA e : e.username # username)

\* KarapaceAuth.write_authfile: the content written.
write_authfile(ad) ==
    LET P[i \in 0 .. Len(ad)] == IF i = 0 THEN <<>> ELSE P[i - 1] \o ad[i].acls
    IN  File([users |-> [i \in 1 .. Len(ad) |-> ad[i].credentials],
              permissions |-> P[Len(ad)]])

\* A mutant of create_internal_user: the operator is granted the user role.
create_internal_user_as_user(ad, admin_password) ==
    add_acl(add_user(ad, ADMIN_USER, admin_password, TRUE), ADMIN_USER, "user", ".*")

\* KarapaceAuth.create_internal_user: the auth_dict after add_user and add_acl
\* (the caller writes the file and publishes the password).
create_internal_user(ad, admin_password) ==
    add_acl(add_user(ad, ADMIN_USER, admin_password, TRUE), ADMIN_USER, "admin", ".*")


\* ------------------------------------------------------------ environment

Ev(kind, u) == [NoEv EXCEPT !.kind = kind, !.unit = u]

unitFiles == <<confile, authfile, service, status>>
tlsVars == <<tls_rel, tls_seen, server, disk, ca_requests, csr_seq>>
clientVars == <<clients, provided>>

\* Juju creates the peer relation.
PeerRelationCreated ==
    /\ ~peer
    /\ peer' = TRUE
    /\ ev' = Ev("peer_relation_created", 0)
    /\ UNCHANGED <<auth_dict, leader, cluster, kafka, cfg, kafka_up, lock>>
    /\ UNCHANGED <<unitFiles, tlsVars, clientVars>>

\* Juju moves the leadership to another unit.
LeaderElected(u) ==
    /\ u # leader
    /\ leader' = u
    /\ ev' = Ev("leader_elected", u)
    /\ UNCHANGED <<auth_dict, peer, cluster, kafka, cfg, kafka_up, lock>>
    /\ UNCHANGED <<unitFiles, tlsVars, clientVars>>

\* The operator sets the charm's config options.
ConfigSet(c) ==
    /\ c # cfg
    /\ cfg' = c
    /\ ev' = Ev("config_set", 0)
    /\ UNCHANGED <<auth_dict, peer, leader, cluster, kafka, kafka_up, lock>>
    /\ UNCHANGED <<unitFiles, tlsVars, clientVars>>

\* The Kafka application is related, advertises data, or the relation goes.
KafkaRelationChanged(k) ==
    /\ k # kafka
    /\ kafka' = k
    /\ ev' = Ev("kafka_relation_changed", 0)
    /\ UNCHANGED <<auth_dict, peer, leader, cluster, cfg, kafka_up, lock>>
    /\ UNCHANGED <<unitFiles, tlsVars, clientVars>>

\* The brokers become reachable or unreachable.
BrokersChange ==
    /\ kafka_up' = ~kafka_up
    /\ ev' = Ev("brokers_change", 0)
    /\ UNCHANGED <<auth_dict, peer, leader, cluster, kafka, cfg, lock>>
    /\ UNCHANGED <<unitFiles, tlsVars, clientVars>>

\* The snap service of unit u dies.
ServiceStops(u) ==
    /\ service[u]
    /\ service' = [service EXCEPT ![u] = FALSE]
    /\ ev' = Ev("service_stops", u)
    /\ UNCHANGED <<auth_dict, peer, leader, cluster, kafka, cfg, kafka_up, lock>>
    /\ UNCHANGED <<confile, authfile, status, tlsVars, clientVars>>

\* A client application is related and requests a subject, or leaves.
ClientRelationChanged(r, c) ==
    /\ c # clients[r]
    /\ clients' = [clients EXCEPT ![r] = c]
    /\ provided' = [provided EXCEPT ![r] = IF c.related THEN @ ELSE NothingProvided]
    /\ ev' = Ev("client_relation_changed", 0)
    /\ UNCHANGED <<auth_dict, peer, leader, cluster, kafka, cfg, kafka_up, lock>>
    /\ UNCHANGED <<unitFiles, tlsVars>>

\* ------------------------------------------- a KarapaceAuth object (managers)

\* The usernames, roles and subject the object's methods are called with.
AuthUsers == {ADMIN_USER, "relation-5000"}
AuthRoles == {"admin", "user", ""}
AuthSubjects == {"test-subject"}
AuthPasswords == {1, 2}

authOthers == <<peer, leader, cluster, kafka, cfg, kafka_up, lock, confile, service, status>>

\* KarapaceAuth.__init__ on unit u: the object is built from the unit's
\* authfile.
LoadAuthfile(u) ==
    /\ auth_dict' = load_authfile(authfile[u])
    /\ ev' = Ev("load_authfile", u)
    /\ UNCHANGED <<authOthers, authfile, tlsVars, clientVars>>

\* KarapaceAuth.add_user on the object; hash_ok is whether the hashing
\* utility succeeds (it raises otherwise).
AddUser(u, username, password, replace, hash_ok) ==
    LET hashes == add_user_hashes(auth_dict, username, replace) IN
    /\ auth_dict' = IF hashes /\ ~hash_ok THEN auth_dict
                    ELSE add_user(auth_dict, username, password, replace)
    /\ ev' = [Ev("add_user", u) EXCEPT
                  !.username = username, !.password = password, !.replace = replace,
                  !.hashed = hashes,
                  !.outcome = IF hashes /\ ~hash_ok THEN "failed" ELSE "done"]
    /\ UNCHANGED <<authOthers, authfile, tlsVars, clientVars>>

\* KarapaceAuth.add_acl on the object.
AddAcl(u, username, role, subject) ==
    /\ auth_dict' = add_acl(auth_dict, username, role, subject)
    /\ ev' = [Ev("add_acl", u) EXCEPT !.username = username, !.role = role]
    /\ UNCHANGED <<authOthers, authfile, tlsVars, clientVars>>

\* KarapaceAuth.remove_user on the object.
RemoveUser(u, username) ==
    /\ auth_dict' = remove_user(auth_dict, username)
    /\ ev' = [Ev("remove_user", u) EXCEPT !.username = username]
    /\ UNCHANGED <<authOthers, authfile, tlsVars, clientVars>>

\* KarapaceAuth.write_authfile on the object of unit u.
WriteAuthfile(u) ==
    /\ authfile' = [authfile EXCEPT ![u] = write_authfile(auth_dict)]
    /\ ev' = Ev("write_authfile", u)
    /\ UNCHANGED <<authOthers, auth_dict, tlsVars, clientVars>>

\* ------------------------------------------------------------------ charm.py

\* workload.start(): a running service stays up, a stopped one comes up
\* unless the snap fails (SnapError is logged).
start(svc, ok) == svc \/ ok

\* workload.restart(): the service is up afterwards unless the snap fails.
restart(svc, ok) == ok

\* "not self.config.karapace_password or not self.config.bootstrap_servers".
config_missing == ~Truthy(cfg.karapace_password) \/ ~Truthy(cfg.bootstrap_servers)

\* KarapaceCharm._on_start on unit u; admin_password is what
\* generate_password returns, hash_ok whether the hashing utility succeeds.
OnStart(u, admin_password, hash_ok) ==
    LET bootstrap == is_leader(u) /\ no_internal_user_credentials
        ad == create_internal_user(load_authfile(authfile[u]), admin_password)
    IN
    /\ IF ~peer
       THEN /\ status' = [status EXCEPT ![u] = WAITING_PEER]
            /\ ev' = [Ev("start", u) EXCEPT !.outcome = "deferred"]
            /\ UNCHANGED <<cluster, authfile>>
       ELSE IF bootstrap /\ ~hash_ok
       THEN \* mkpasswd raises in add_user, after config_changed was written
            /\ cluster' = [cluster EXCEPT !.config_changed = "added"]
            /\ ev' = [Ev("start", u) EXCEPT !.outcome = "failed"]
            /\ UNCHANGED <<status, authfile>>
       ELSE /\ cluster' = IF bootstrap
                          THEN [cluster EXCEPT !.config_changed = "added",
                                               !.passwords[ADMIN_USER] = admin_password]
                          ELSE cluster
            /\ authfile' = IF bootstrap
                           THEN [authfile EXCEPT ![u] = write_authfile(ad)]
                           ELSE authfile
            /\ status' = [status EXCEPT ![u] =
                              IF config_missing THEN WAITING_CONFIG ELSE ACTIVE]
            /\ ev' = [Ev("start", u) EXCEPT !.bootstrapped = bootstrap]
    /\ UNCHANGED <<auth_dict, peer, leader, kafka, cfg, kafka_up, lock, confile, service>>
    /\ UNCHANGED <<tlsVars, clientVars>>

\* A mutant of config_changed: the config file is rendered before readiness
\* is tested.
config_changed_renders_first(u, svc, file, ok) ==
    IF ready_to_start # ACTIVE
    THEN [status |-> ready_to_start, outcome |-> "deferred", file |-> write_config_file(u),
          svc |-> svc, started |-> FALSE, restarted |-> FALSE, drift |-> "n/a"]
    ELSE IF config_missing
    THEN [status |-> WAITING_CONFIG, outcome |-> "done", file |-> file, svc |-> svc,
          started |-> FALSE, restarted |-> FALSE, drift |-> "n/a"]
    ELSE LET changed == drift(u, file) IN
         [status |-> ACTIVE, outcome |-> "done",
          file |-> IF changed THEN write_config_file(u) ELSE file,
          svc |-> IF svc THEN restart(svc, ok) ELSE start(svc, ok),
          started |-> ~svc, restarted |-> svc,
          drift |-> IF changed THEN "yes" ELSE "no"]

\* The body of KarapaceCharm._on_config_changed on unit u, run with the
\* service in state svc and the config file holding file; ok is whether the
\* snap brings the service up.
config_changed(u, svc, file, ok) ==
    IF ready_to_start # ACTIVE
    THEN [status |-> ready_to_start, outcome |-> "deferred", file |-> file, svc |-> svc,
          started |-> FALSE, restarted |-> FALSE, drift |-> "n/a"]
    ELSE IF config_missing
    THEN [status |-> WAITING_CONFIG, outcome |-> "done", file |-> file, svc |-> svc,
          started |-> FALSE, restarted |-> FALSE, drift |-> "n/a"]
    ELSE LET changed == drift(u, file) IN
         [status |-> ACTIVE, outcome |-> "done",
          file |-> IF changed THEN write_config_file(u) ELSE file,
          svc |-> IF svc THEN restart(svc, ok) ELSE start(svc, ok),
          started |-> ~svc, restarted |-> svc,
          drift |-> IF changed THEN "yes" ELSE "no"]

\* KarapaceCharm._on_config_changed on unit u.
OnConfigChanged(u, ok) ==
    LET r == config_changed(u, service[u], confile[u], ok) IN
    /\ status' = [status EXCEPT ![u] = r.status]
    /\ confile' = [confile EXCEPT ![u] = r.file]
    /\ service' = [service EXCEPT ![u] = r.svc]
    /\ ev' = [Ev("config_changed", u) EXCEPT !.outcome = r.outcome, !.started = r.started,
                                             !.restarted = r.restarted, !.drift = r.drift]
    /\ UNCHANGED <<auth_dict, peer, leader, cluster, kafka, cfg, kafka_up, lock, authfile>>
    /\ UNCHANGED <<tlsVars, clientVars>>

\* KafkaHandler._on_kafka_topic_created on unit u: the config is rendered, the
\* service started, and config_changed emitted (its handler runs at once).
OnKafkaTopicCreated(u, ok1, ok2) ==
    LET svc1 == start(service[u], ok1)
        r == config_changed(u, svc1, write_config_file(u), ok2)
    IN
    /\ kafka.related /\ Truthy(kafka.topic)
    /\ status' = [status EXCEPT ![u] = r.status]
    /\ confile' = [confile EXCEPT ![u] = r.file]
    /\ service' = [service EXCEPT ![u] = r.svc]
    /\ ev' = [Ev("topic_created", u) EXCEPT !.outcome = r.outcome, !.started = TRUE,
                                            !.restarted = r.restarted, !.drift = r.drift]
    /\ UNCHANGED <<auth_dict, peer, leader, cluster, kafka, cfg, kafka_up, lock, authfile>>
    /\ UNCHANGED <<tlsVars, clientVars>>

\* KafkaHandler._on_kafka_bootstrap_server_changed on unit u: config_changed
\* is emitted.
OnKafkaBootstrapServerChanged(u, ok) ==
    LET r == config_changed(u, service[u], confile[u], ok) IN
    /\ kafka.related /\ Truthy(kafka.endpoints)
    /\ status' = [status EXCEPT ![u] = r.status]
    /\ confile' = [confile EXCEPT ![u] = r.file]
    /\ service' = [service EXCEPT ![u] = r.svc]
    /\ ev' = [Ev("bootstrap_server_changed", u) EXCEPT
                  !.outcome = r.outcome, !.started = r.started,
                  !.restarted = r.restarted, !.drift = r.drift]
    /\ UNCHANGED <<auth_dict, peer, leader, cluster, kafka, cfg, kafka_up, lock, authfile>>
    /\ UNCHANGED <<tlsVars, clientVars>>

\* KafkaHandler._on_kafka_broken on unit u.
OnKafkaBroken(u) ==
    /\ ~kafka.related
    /\ service' = [service EXCEPT ![u] = FALSE]
    /\ status' = [status EXCEPT ![u] = KAFKA_NOT_RELATED]
    /\ ev' = Ev("kafka_broken", u)
    /\ UNCHANGED <<auth_dict, peer, leader, cluster, kafka, cfg, kafka_up, lock, confile, authfile>>
    /\ UNCHANGED <<tlsVars, clientVars>>

\* ------------------------------------------------------------ restart lock

\* RollingOpsManager: the leader grants the lock to a unit that asked for it
\* while no unit holds it.
GrantLock(u) ==
    /\ peer
    /\ lock[u] = "acquire"
    /\ \A v \in Units : lock[v] # "granted"
    /\ lock' = [lock EXCEPT ![u] = "granted"]
    /\ ev' = Ev("grant_lock", u)
    /\ UNCHANGED <<auth_dict, peer, leader, cluster, kafka, cfg, kafka_up>>
    /\ UNCHANGED <<unitFiles, tlsVars, clientVars>>

\* acquire_lock.emit() on a unit whose lock is in state l: the unit asks for
\* the lock, and a lock it was granted stays granted.
acquire_lock(l) == IF l = "granted" THEN l ELSE "acquire"

\* A mutant of RunWithLock: the lock stays held when the restart fails.
RunWithLockKeepsOnFailure(u, ok) ==
    LET h == healthy(u) IN
    /\ lock[u] = "granted"
    /\ status' = [status EXCEPT ![u] = h.status]
    /\ service' = [service EXCEPT ![u] = IF h.ok THEN restart(@, ok) ELSE @]
    /\ lock' = [lock EXCEPT ![u] = IF h.ok /\ ~ok THEN @ ELSE "idle"]
    /\ ev' = [Ev("restart", u) EXCEPT !.restarted = h.ok,
                                      !.healthy = IF h.ok THEN "yes" ELSE "no"]
    /\ UNCHANGED <<auth_dict, peer, leader, cluster, kafka, cfg, kafka_up, confile, authfile>>
    /\ UNCHANGED <<tlsVars, clientVars>>

\* RollingOpsManager runs the callback KarapaceCharm._restart on the unit that
\* holds the lock, and releases the lock when the callback returns.
RunWithLock(u, ok) ==
    LET h == healthy(u) IN
    /\ lock[u] = "granted"
    /\ status' = [status EXCEPT ![u] = h.status]
    /\ service' = [service EXCEPT ![u] = IF h.ok THEN restart(@, ok) ELSE @]
    /\ lock' = [lock EXCEPT ![u] = "idle"]
    /\ ev' = [Ev("restart", u) EXCEPT !.restarted = h.ok,
                                      !.healthy = IF h.ok THEN "yes" ELSE "no"]
    /\ UNCHANGED <<auth_dict, peer, leader, cluster, kafka, cfg, kafka_up, confile, authfile>>
    /\ UNCHANGED <<tlsVars, clientVars>>


\* ---------------------------------------------------------- events/provider

\* The username of a client relation: f"relation-{relation.id}".
rel_user(r) == IF r = 5000 THEN "relation-5000" ELSE "relation-other"

\* "admin" in extra_user_roles.
has_admin(roles) == roles \in {"admin", "admin,user"}

\* A mutant of client_passwords: no published password is found.
client_passwords_empty == [r \in ClientRels |-> NoPassword]

\* KarapaceCluster.client_passwords: the published passwords of the client
\* relations' users.
client_passwords == cluster.client_passwords

\* A mutant of super_users: the published credential is not looked at.
super_users_without_credential ==
    INTERNAL_USERS \cup
    {rel_user(r) : r \in {x \in ClientRels :
        clients[x].related /\ has_admin(clients[x].extra_user_roles)}}

\* ClusterContext.super_users.
super_users ==
    INTERNAL_USERS \cup
    {rel_user(r) : r \in {x \in ClientRels :
        /\ clients[x].related
        /\ has_admin(clients[x].extra_user_roles)
        /\ cluster.client_passwords[x] # NoPassword}}

\* ClusterContext.endpoints: the sorted host:port list of the servers.
endpoints == IF ~peer THEN "" ELSE "10.0.0.10:8081,10.0.0.11:8081"

\* A mutant of client_password: a password is generated every time.
client_password_fresh(r, new_password) == new_password

\* The password on_subject_requested installs for client relation r: the one
\* already published for its user, or else the generated new_password.
client_password(r, new_password) ==
    IF client_passwords[r] # NoPassword THEN client_passwords[r] ELSE new_password

\* KarapaceHandler.on_subject_requested on unit u for client relation r;
\* new_password is what generate_password returns, hash_ok whether the
\* hashing utility succeeds.
OnSubjectRequested(u, r, new_password, hash_ok) ==
    LET h == healthy(u)
        username == rel_user(r)
        password == client_password(r, new_password)
        e == [Ev("subject_requested", u) EXCEPT
                  !.username = username, !.role = clients[r].extra_user_roles,
                  !.password = new_password]
        ad0 == load_authfile(authfile[u])
        ad == add_acl(add_user(ad0, username, password, FALSE), username,
                      clients[r].extra_user_roles, clients[r].subject)
    IN
    /\ clients[r].related /\ Truthy(clients[r].subject)
    /\ status' = [status EXCEPT ![u] = h.status]
    /\ IF ~h.ok
       THEN /\ ev' = [e EXCEPT !.outcome = "deferred", !.healthy = "no"]
            /\ UNCHANGED <<authfile, cluster, provided, lock>>
       ELSE IF ~is_leader(u)
       THEN /\ ev' = [e EXCEPT !.healthy = "yes"]
            /\ UNCHANGED <<authfile, cluster, provided, lock>>
       ELSE IF add_user_hashes(ad0, username, FALSE) /\ ~hash_ok
       THEN /\ ev' = [e EXCEPT !.outcome = "failed", !.healthy = "yes", !.hashed = TRUE]
            /\ UNCHANGED <<authfile, cluster, provided, lock>>
       ELSE /\ authfile' = [authfile EXCEPT ![u] = write_authfile(ad)]
            /\ cluster' = [cluster EXCEPT !.client_passwords[r] = password,
                                          !.super_users = super_users]
            /\ provided' = [provided EXCEPT ![r] =
                   [endpoints |-> endpoints, username |-> username,
                    password |-> password,
                    tls |-> IF tls_enabled THEN "enabled" ELSE "disabled",
                    subject |-> clients[r].subject]]
            /\ lock' = [lock EXCEPT ![u] = acquire_lock(@)]
            /\ ev' = [e EXCEPT !.healthy = "yes", !.lock_requested = TRUE,
                                !.hashed = add_user_hashes(ad0, username, FALSE)]
    /\ UNCHANGED <<auth_dict, peer, leader, kafka, cfg, kafka_up, confile, service, clients>>
    /\ UNCHANGED tlsVars

\* The planned unit counts of the application a handler may find: the
\* application going down, and a deployment of two units.
PlannedUnits == {0, 2}

\* "self.charm.app.planned_units == 0": the bound method itself, not its
\* result, is compared with 0, which no planned unit count makes true.
going_down(planned_units) == FALSE

\* "event.relation.app != self.charm.app or not self.charm.app.planned_units()
\* == 0" for the relation of a client, which is another application.
removes_client(planned_units) == TRUE \/ planned_units # 0

\* KarapaceHandler._on_relation_broken on unit u for client relation r, which
\* is an application other than this one, while the application has
\* planned_units planned units.
OnClientRelationBroken(u, r, planned_units) ==
    LET h == healthy(u)
        username == rel_user(r)
        e == [Ev("client_relation_broken", u) EXCEPT !.username = username,
                                                       !.planned_units = planned_units]
        ad == remove_user(load_authfile(authfile[u]), username)
    IN
    /\ ~clients[r].related
    /\ IF ~is_leader(u) \/ going_down(planned_units)
       THEN /\ ev' = e
            /\ UNCHANGED <<status, authfile, cluster, lock>>
       ELSE IF ~h.ok
       THEN /\ status' = [status EXCEPT ![u] = h.status]
            /\ ev' = [e EXCEPT !.outcome = "deferred", !.healthy = "no"]
            /\ UNCHANGED <<authfile, cluster, lock>>
       ELSE IF ~removes_client(planned_units)
       THEN /\ status' = [status EXCEPT ![u] = h.status]
            /\ ev' = [e EXCEPT !.healthy = "yes"]
            /\ UNCHANGED <<authfile, cluster, lock>>
       ELSE /\ status' = [status EXCEPT ![u] = h.status]
            /\ authfile' = [authfile EXCEPT ![u] = write_authfile(ad)]
            /\ cluster' = [cluster EXCEPT !.client_passwords[r] = NoPassword]
            /\ lock' = [lock EXCEPT ![u] = acquire_lock(@)]
            /\ ev' = [e EXCEPT !.healthy = "yes", !.lock_requested = TRUE]
    /\ UNCHANGED <<auth_dict, peer, leader, kafka, cfg, kafka_up, confile, service>>
    /\ UNCHANGED <<tlsVars, clientVars>>

\* -------------------------------------------------- events/password_actions

\* A mutant of get_password: the authfile is not looked at.
get_password_unchecked(u) ==
    IF no_internal_user_credentials THEN NoPassword
    ELSE internal_user_credentials[ADMIN_USER]

\* What PasswordActionEvents._get_password_action returns on unit u: the
\* published password of the operator, or nothing when the unit has no
\* authfile (the action fails) or no credentials are published (the lookup
\* raises).
get_password(u) ==
    IF authfile[u] = NoFile \/ no_internal_user_credentials THEN NoPassword
    ELSE internal_user_credentials[ADMIN_USER]

\* PasswordActionEvents._get_password_action on unit u.
OnGetPassword(u) ==
    /\ ev' = [Ev("get_password", u) EXCEPT
                  !.outcome = IF authfile[u] = NoFile THEN "rejected"
                              ELSE IF no_internal_user_credentials THEN "failed"
                              ELSE "done",
                  !.username = IF get_password(u) = NoPassword THEN "" ELSE ADMIN_USER,
                  !.result = get_password(u)]
    /\ UNCHANGED <<auth_dict, peer, leader, cluster, kafka, cfg, kafka_up, lock>>
    /\ UNCHANGED <<unitFiles, tlsVars, clientVars>>

\* A mutant of password_in_use: no password counts as known.
password_in_use_never(new_password) == FALSE

\* "new_password in internal_user_credentials.values()".
password_in_use(new_password) ==
    \E x \in DOMAIN internal_user_credentials : internal_user_credentials[x] = new_password

\* PasswordActionEvents._set_password_action on unit u; new_password is the
\* action's password parameter or, without one, what generate_password
\* returns; hash_ok is whether the hashing utility succeeds.
OnSetPassword(u, username, new_password, hash_ok) ==
    LET h == healthy(u)
        e == [Ev("set_password", u) EXCEPT !.username = username,
                                             !.password = new_password]
        ad == add_acl(add_user(load_authfile(authfile[u]), username, new_password, TRUE),
                      username, "admin", "")
    IN
    /\ IF ~is_leader(u)
       THEN /\ ev' = [e EXCEPT !.outcome = "rejected"]
            /\ UNCHANGED <<status, authfile, cluster>>
       ELSE IF ~h.ok
       THEN /\ status' = [status EXCEPT ![u] = h.status]
            /\ ev' = [e EXCEPT !.outcome = "rejected", !.healthy = "no"]
            /\ UNCHANGED <<authfile, cluster>>
       ELSE IF username \notin INTERNAL_USERS \/ password_in_use(new_password)
       THEN /\ status' = [status EXCEPT ![u] = h.status]
            /\ ev' = [e EXCEPT !.outcome = "rejected", !.healthy = "yes"]
            /\ UNCHANGED <<authfile, cluster>>
       ELSE IF ~hash_ok
       THEN /\ status' = [status EXCEPT ![u] = h.status]
            /\ ev' = [e EXCEPT !.outcome = "failed", !.healthy = "yes", !.hashed = TRUE]
            /\ UNCHANGED <<authfile, cluster>>
       ELSE /\ status' = [status EXCEPT ![u] = h.status]
            /\ authfile' = [authfile EXCEPT ![u] = write_authfile(ad)]
            /\ cluster' = [cluster EXCEPT !.passwords[username] = new_password]
            /\ ev' = [e EXCEPT !.healthy = "yes", !.hashed = TRUE,
                                !.result = new_password]
    /\ UNCHANGED <<auth_dict, peer, leader, kafka, cfg, kafka_up, lock, confile, service>>
    /\ UNCHANGED <<tlsVars, clientVars>>

\* --------------------------------------------------------------- events/tls

\* A write to the unit's own databag; there is none without the peer relation.
server_update(u, new) == IF peer THEN [server EXCEPT ![u] = new] ELSE server

\* generate_csr: a CSR over the key, with a fresh serial.
generate_csr(key) == [key |-> key, n |-> csr_seq + 1]

\* The certificate the provider signs for a CSR.
signed(csr) == [csr |-> csr]

\* The certificates relation is created / removed.
TlsRelationEstablished ==
    /\ ~tls_rel
    /\ \A u \in Units : tls_seen[u] = "none"
    /\ tls_rel' = TRUE
    /\ ev' = Ev("certificates_related", 0)
    /\ UNCHANGED <<auth_dict, peer, leader, cluster, kafka, cfg, kafka_up, lock>>
    /\ UNCHANGED <<unitFiles, clientVars, tls_seen, server, disk, ca_requests, csr_seq>>

TlsRelationRemoved ==
    /\ tls_rel
    /\ tls_rel' = FALSE
    /\ ev' = Ev("certificates_removed", 0)
    /\ UNCHANGED <<auth_dict, peer, leader, cluster, kafka, cfg, kafka_up, lock>>
    /\ UNCHANGED <<unitFiles, clientVars, tls_seen, server, disk, ca_requests, csr_seq>>

\* TLSHandler._tls_relation_created on unit u.
OnTlsRelationCreated(u) ==
    /\ tls_rel /\ tls_seen[u] = "none"
    /\ tls_seen' = [tls_seen EXCEPT ![u] = "created"]
    /\ cluster' = IF ~is_leader(u) \/ ~peer THEN cluster
                  ELSE [cluster EXCEPT !.tls = "enabled"]
    /\ ev' = Ev("tls_relation_created", u)
    /\ UNCHANGED <<auth_dict, peer, leader, kafka, cfg, kafka_up, lock>>
    /\ UNCHANGED <<unitFiles, clientVars, tls_rel, server, disk, ca_requests, csr_seq>>

\* TLSHandler._request_certificate on unit u holding key: [server, requests,
\* seq, ok]; ca_ok is whether the call to the provider succeeds.
request_certificate(u, srv, ca_ok) ==
    IF srv[u].private_key = NoKey \/ ~peer
    THEN [server |-> srv, requests |-> ca_requests, seq |-> csr_seq, ok |-> TRUE]
    ELSE LET csr == generate_csr(srv[u].private_key) IN
         [server |-> [srv EXCEPT ![u].csr = csr],
          requests |-> IF ca_ok THEN ca_requests \cup {csr} ELSE ca_requests,
          seq |-> csr_seq + 1, ok |-> ca_ok]

\* A mutant of OnTlsRelationJoined: a key is generated on every join.
OnTlsRelationJoinedNewKey(u, new_key, ca_ok) ==
    LET srv1 == server_update(u, [server[u] EXCEPT !.private_key = new_key])
        r == request_certificate(u, srv1, ca_ok)
    IN
    /\ tls_rel /\ tls_seen[u] = "created"
    /\ csr_seq < MaxCsr
    /\ tls_seen' = [tls_seen EXCEPT ![u] = "joined"]
    /\ server' = r.server
    /\ ca_requests' = r.requests
    /\ csr_seq' = r.seq
    /\ ev' = [Ev("tls_relation_joined", u) EXCEPT
                  !.outcome = IF r.ok THEN "done" ELSE "failed", !.key = new_key]
    /\ UNCHANGED <<auth_dict, peer, leader, cluster, kafka, cfg, kafka_up, lock>>
    /\ UNCHANGED <<unitFiles, clientVars, tls_rel, disk>>

\* TLSHandler._tls_relation_joined on unit u; new_key is what
\* generate_private_key returns.
OnTlsRelationJoined(u, new_key, ca_ok) ==
    LET srv1 == IF server[u].private_key = NoKey
                THEN server_update(u, [server[u] EXCEPT !.private_key = new_key])
                ELSE server
        r == request_certificate(u, srv1, ca_ok)
    IN
    /\ tls_rel /\ tls_seen[u] = "created"
    /\ csr_seq < MaxCsr
    /\ tls_seen' = [tls_seen EXCEPT ![u] = "joined"]
    /\ server' = r.server
    /\ ca_requests' = r.requests
    /\ csr_seq' = r.seq
    /\ ev' = [Ev("tls_relation_joined", u) EXCEPT
                  !.outcome = IF r.ok THEN "done" ELSE "failed", !.key = new_key]
    /\ UNCHANGED <<auth_dict, peer, leader, cluster, kafka, cfg, kafka_up, lock>>
    /\ UNCHANGED <<unitFiles, clientVars, tls_rel, disk>>

\* A mutant of remove_stores: the glob matches nothing.
remove_stores_nothing(d) == d

\* TLSManager.remove_stores: rm -rf *.pem *.key in the conf directory.
remove_stores(d) == [keyfile |-> NoFile, certfile |-> NoFile, cafile |-> NoFile]

\* TLSHandler._tls_relation_broken on unit u; ok: the rm of remove_stores
\* succeeds. The databag fields are cleared before remove_stores runs; when
\* the rm fails remove_stores re-raises, the handler ends there and Juju runs
\* the failed hook again.
OnTlsRelationBroken(u, ok) ==
    /\ ~tls_rel /\ tls_seen[u] # "none"
    /\ tls_seen' = [tls_seen EXCEPT ![u] = IF ok THEN "none" ELSE @]
    /\ server' = server_update(u, [server[u] EXCEPT !.csr = NoCsr, !.certificate = NoCert,
                                                    !.ca = NoCa])
    /\ disk' = [disk EXCEPT ![u] = IF ok THEN remove_stores(@) ELSE @]
    /\ cluster' = IF ~ok \/ ~is_leader(u) \/ ~peer THEN cluster
                  ELSE [cluster EXCEPT !.tls = ""]
    /\ ev' = [Ev("tls_relation_broken", u) EXCEPT !.csr = server[u].certificate.csr,
                                                  !.outcome = IF ok THEN "done" ELSE "failed"]
    /\ UNCHANGED <<auth_dict, peer, leader, kafka, cfg, kafka_up, lock>>
    /\ UNCHANGED <<unitFiles, clientVars, tls_rel, ca_requests, csr_seq>>

\* Kafka.broker_ca: the CA the Kafka application advertises.
broker_ca == kafka.tls_ca

\* TLSManager.set_server_key / set_ca / set_certificate on unit u whose
\* databag holds srv: the files afterwards.
set_server_key(d, srv) ==
    IF srv.private_key = NoKey THEN d ELSE [d EXCEPT !.keyfile = File(srv.private_key)]

set_ca(d, srv) ==
    LET ca == IF ~Truthy(broker_ca) \/ broker_ca = "enabled" THEN srv.ca ELSE broker_ca
    IN  IF ~Truthy(ca) THEN d ELSE [d EXCEPT !.cafile = File(ca)]

set_certificate(d, srv) ==
    IF srv.certificate = NoCert THEN d ELSE [d EXCEPT !.certfile = File(srv.certificate)]

\* A mutant of csr_matches: any signing request is taken.
csr_matches_any(u, csr) == TRUE

\* The test of _on_certificate_available: the event's signing request is the
\* unit's stored CSR.
csr_matches(u, csr) == csr = server[u].csr

\* TLSHandler._on_certificate_available on unit u, for the certificate the
\* provider signed for csr.
OnCertificateAvailable(u, csr) ==
    LET srv == [server[u] EXCEPT !.certificate = signed(csr), !.ca = TheCa] IN
    /\ csr \in ca_requests
    /\ IF ~peer
       THEN /\ ev' = [Ev("certificate_available", u) EXCEPT !.outcome = "deferred",
                                                           !.csr = csr]
            /\ UNCHANGED <<server, disk>>
       ELSE IF ~csr_matches(u, csr)
       THEN /\ ev' = [Ev("certificate_available", u) EXCEPT !.outcome = "rejected",
                                                           !.csr = csr]
            /\ UNCHANGED <<server, disk>>
       ELSE /\ server' = [server EXCEPT ![u] = srv]
            /\ disk' = [disk EXCEPT ![u] =
                            set_certificate(set_ca(set_server_key(@, srv), srv), srv)]
            /\ ev' = [Ev("certificate_available", u) EXCEPT !.csr = csr]
    /\ UNCHANGED <<auth_dict, peer, leader, cluster, kafka, cfg, kafka_up, lock>>
    /\ UNCHANGED <<unitFiles, clientVars, tls_rel, tls_seen, ca_requests, csr_seq>>

\* A mutant of certificate_expiring: the stored CSR is submitted again.
certificate_expiring_resubmits(u, srv, ca_ok) ==
    IF srv[u].private_key = NoKey \/ srv[u].csr = NoCsr \/ ~peer
    THEN [server |-> srv, requests |-> ca_requests, seq |-> csr_seq, outcome |-> "rejected",
          old |-> NoCsr]
    ELSE IF ~ca_ok
    THEN [server |-> srv, requests |-> ca_requests, seq |-> csr_seq + 1,
          outcome |-> "failed", old |-> NoCsr]
    ELSE [server |-> srv, requests |-> ca_requests \cup {srv[u].csr},
          seq |-> csr_seq + 1, outcome |-> "done", old |-> srv[u].csr]

\* The body of TLSHandler._on_certificate_expiring on unit u whose databags
\* are srv: [server, requests, seq, outcome, old], old being the CSR the
\* renewal names as the one it replaces.
certificate_expiring(u, srv, ca_ok) ==
    IF srv[u].private_key = NoKey \/ srv[u].csr = NoCsr \/ ~peer
    THEN [server |-> srv, requests |-> ca_requests, seq |-> csr_seq, outcome |-> "rejected",
          old |-> NoCsr]
    ELSE IF ~ca_ok
    THEN [server |-> srv, requests |-> ca_requests, seq |-> csr_seq + 1,
          outcome |-> "failed", old |-> NoCsr]
    ELSE LET new_csr == generate_csr(srv[u].private_key) IN
         [server |-> [srv EXCEPT ![u].csr = new_csr],
          requests |-> ca_requests \cup {new_csr},
          seq |-> csr_seq + 1, outcome |-> "done", old |-> srv[u].csr]

\* TLSHandler._on_certificate_expiring on unit u.
OnCertificateExpiring(u, ca_ok) ==
    LET r == certificate_expiring(u, server, ca_ok) IN
    /\ tls_rel /\ tls_seen[u] = "joined"
    /\ csr_seq < MaxCsr
    /\ server' = r.server
    /\ ca_requests' = r.requests
    /\ csr_seq' = r.seq
    /\ ev' = [Ev("certificate_expiring", u) EXCEPT !.outcome = r.outcome, !.csr = r.old]
    /\ UNCHANGED <<auth_dict, peer, leader, cluster, kafka, cfg, kafka_up, lock>>
    /\ UNCHANGED <<unitFiles, clientVars, tls_rel, tls_seen, disk>>

\* TLSHandler._set_tls_private_key on unit u; key is the key the action
\* installs (the internal-key parameter decoded, or a generated key).
OnSetTlsPrivateKey(u, key, ca_ok) ==
    LET srv1 == server_update(u, [server[u] EXCEPT !.private_key = key])
        r == certificate_expiring(u, srv1, ca_ok)
    IN
    /\ csr_seq < MaxCsr
    /\ server' = r.server
    /\ ca_requests' = r.requests
    /\ csr_seq' = r.seq
    /\ ev' = [Ev("set_tls_private_key", u) EXCEPT !.outcome = r.outcome, !.key = key,
                                                  !.csr = r.old]
    /\ UNCHANGED <<auth_dict, peer, leader, cluster, kafka, cfg, kafka_up, lock>>
    /\ UNCHANGED <<unitFiles, clientVars, tls_rel, tls_seen, disk>>


\* ------------------------------------------------------------ specifications

Bools == {TRUE, FALSE}
KafkaStates == {KafkaUnrelated, KafkaNoData} \cup KafkaPartial \cup KafkaFull
CfgStates == {CfgUnset, CfgSet, CfgPartial}
ClientStates == {NoClient} \cup ClientRequests

\* Every handler and every change of the environment.
Next ==
    \/ PeerRelationCreated
    \/ \E u \in Units : LeaderElected(u)
    \/ \E c \in CfgStates : ConfigSet(c)
    \/ \E k \in KafkaStates : KafkaRelationChanged(k)
    \/ BrokersChange
    \/ \E u \in Units : ServiceStops(u)
    \/ \E r \in ClientRels, c \in ClientStates : ClientRelationChanged(r, c)
    \/ \E u \in Units, p \in Passwords, ok \in Bools : OnStart(u, p, ok)
    \/ \E u \in Units, ok \in Bools : OnConfigChanged(u, ok)
    \/ \E u \in Units, ok1 \in Bools, ok2 \in Bools : OnKafkaTopicCreated(u, ok1, ok2)
    \/ \E u \in Units, ok \in Bools : OnKafkaBootstrapServerChanged(u, ok)
    \/ \E u \in Units : OnKafkaBroken(u)
    \/ \E u \in Units : GrantLock(u)
    \/ \E u \in Units, ok \in Bools : RunWithLock(u, ok)
    \/ \E u \in Units, r \in ClientRels, p \in Passwords, ok \in Bools :
           OnSubjectRequested(u, r, p, ok)
    \/ TlsRelationEstablished
    \/ TlsRelationRemoved
    \/ \E u \in Units : OnTlsRelationCreated(u)
    \/ \E u \in Units, k \in Keys, ok \in Bools : OnTlsRelationJoined(u, k, ok)
    \/ \E u \in Units, ok \in Bools : OnTlsRelationBroken(u, ok)
    \/ \E u \in Units, c \in ca_requests : OnCertificateAvailable(u, c)
    \/ \E u \in Units, ok \in Bools : OnCertificateExpiring(u, ok)
    \/ \E u \in Units, k \in Keys, ok \in Bools : OnSetTlsPrivateKey(u, k, ok)
    \/ \E u \in Units, n \in AuthUsers, p \in Passwords, ok \in Bools :
           OnSetPassword(u, n, p, ok)
    \/ \E u \in Units, r \in ClientRels, n \in PlannedUnits : OnClientRelationBroken(u, r, n)
    \/ \E u \in Units : OnGetPassword(u)
    \/ \E u \in Units : LoadAuthfile(u)
    \/ \E u \in Units, n \in AuthUsers, p \in AuthPasswords, r \in Bools, ok \in Bools :
           AddUser(u, n, p, r, ok)
    \/ \E u \in Units, n \in AuthUsers, r \in AuthRoles, x \in AuthSubjects :
           AddAcl(u, n, r, x)
    \/ \E u \in Units, n \in AuthUsers : RemoveUser(u, n)
    \/ \E u \in Units : WriteAuthfile(u)

Spec == Init /\ [][Next]_vars


\* The bootstrap of the internal user: the peer relation, the leadership, the
\* config options and the start hook.
NextStart ==
    \/ PeerRelationCreated
    \/ \E u \in Units : LeaderElected(u)
    \/ \E c \in CfgStates : ConfigSet(c)
    \/ \E u \in Units, p \in Passwords, ok \in Bools : OnStart(u, p, ok)

SpecStart == Init /\ [][NextStart]_vars

\* The TLS lifecycle: the certificates relation and its handlers.
NextTLS ==
    \/ PeerRelationCreated
    \/ TlsRelationEstablished
    \/ TlsRelationRemoved
    \/ \E u \in Units : OnTlsRelationCreated(u)
    \/ \E u \in Units, k \in Keys, ok \in Bools : OnTlsRelationJoined(u, k, ok)
    \/ \E u \in Units, ok \in Bools : OnTlsRelationBroken(u, ok)
    \/ \E u \in Units, c \in ca_requests : OnCertificateAvailable(u, c)
    \/ \E u \in Units, ok \in Bools : OnCertificateExpiring(u, ok)
    \/ \E u \in Units, k \in Keys, ok \in Bools : OnSetTlsPrivateKey(u, k, ok)

SpecTLS == Init /\ [][NextTLS]_vars


\* The specifications below follow the handlers of one unit, unit 0, which is
\* the leader in some behaviours and a follower in the others.
Observed == {0}

\* generate_password where the value of the password is of no interest.
OnePassword == {1}

\* What the Kafka application advertises: nothing, or everything from one
\* broker with each value of its tls flag.
KafkaReadyStates == {KafkaUnrelated, KafkaNoData} \cup {k \in KafkaFull : k.units = 1}

\* Readiness and reconciliation: the relations come up, the leader
\* bootstraps, and the unit reconciles on config-changed.
NextReady ==
    \/ PeerRelationCreated
    \/ \E k \in KafkaReadyStates : KafkaRelationChanged(k)
    \/ TlsRelationEstablished
    \/ \E u \in Units : OnTlsRelationCreated(u)
    \/ \E u \in Units, p \in Passwords, ok \in Bools : OnStart(u, p, ok)
    \/ \E u \in Observed, ok \in Bools : OnConfigChanged(u, ok)
    \/ \E u \in Observed, ok \in Bools : OnKafkaBootstrapServerChanged(u, ok)
    \/ \E u \in Observed : OnKafkaBroken(u)

SpecReady == Init /\ [][NextReady]_vars

\* Kafka unrelated, and ready with each set of brokers and each TLS flag.
KafkaDriftStates == {KafkaUnrelated} \cup KafkaFull

\* Drift: Kafka changes its brokers and its TLS flag, and the group its own,
\* while the unit reconciles.
NextDrift ==
    \/ PeerRelationCreated
    \/ \E k \in KafkaDriftStates : KafkaRelationChanged(k)
    \/ TlsRelationEstablished
    \/ \E u \in Units : OnTlsRelationCreated(u)
    \/ \E u \in Observed, p \in OnePassword, ok \in Bools : OnStart(u, p, ok)
    \/ \E u \in Observed, ok \in Bools : OnConfigChanged(u, ok)

SpecDrift == Init /\ [][NextDrift]_vars

\* Kafka unrelated, and ready with TLS off and with TLS on.
KafkaRestartStates ==
    {KafkaUnrelated} \cup {k \in KafkaFull : k.units = 1 /\ k.tls # "disabled"}

\* A client that asks for a subject as an admin.
ClientRestartStates == {NoClient} \cup {c \in ClientRequests : c.extra_user_roles = "admin"}

\* Restarts: the unit reconciles, serves a client and restarts under the
\* rolling-ops lock while the brokers come and go.
NextRestart ==
    \/ PeerRelationCreated
    \/ \E k \in KafkaRestartStates : KafkaRelationChanged(k)
    \/ BrokersChange
    \/ \E u \in Observed : ServiceStops(u)
    \/ \E r \in ClientRels, c \in ClientRestartStates : ClientRelationChanged(r, c)
    \/ \E u \in Observed, p \in OnePassword, ok \in Bools : OnStart(u, p, ok)
    \/ \E u \in Observed, ok \in Bools : OnConfigChanged(u, ok)
    \/ \E u \in Observed, ok1 \in Bools, ok2 \in Bools : OnKafkaTopicCreated(u, ok1, ok2)
    \/ \E u \in Observed, r \in ClientRels, p \in OnePassword, ok \in Bools :
           OnSubjectRequested(u, r, p, ok)
    \/ \E u \in Observed : GrantLock(u)
    \/ \E u \in Observed, ok \in Bools : RunWithLock(u, ok)

SpecRestart == Init /\ [][NextRestart]_vars

\* The authorization state: the methods of one KarapaceAuth object, called in
\* any order with any arguments.
NextAuth ==
    \/ \E u \in Observed : LoadAuthfile(u)
    \/ \E u \in Observed, n \in AuthUsers, p \in AuthPasswords, r \in Bools, ok \in Bools :
           AddUser(u, n, p, r, ok)
    \/ \E u \in Observed, n \in AuthUsers, r \in AuthRoles, x \in AuthSubjects :
           AddAcl(u, n, r, x)
    \/ \E u \in Observed, n \in AuthUsers : RemoveUser(u, n)
    \/ \E u \in Observed : WriteAuthfile(u)

\* The object lives on the leader, unit 0.
InitAuth == Init /\ leader = 0 /\ cfg = CfgUnset

SpecAuth == InitAuth /\ [][NextAuth]_vars

\* Kafka unrelated, and ready with one broker and TLS off.
KafkaProviderStates == {KafkaUnrelated} \cup {k \in KafkaFull : k.units = 1 /\ k.tls = ""}

\* Client provisioning: the unit comes up, and a client application asks for a
\* subject with each role, changes its role and leaves.
NextProvider ==
    \/ PeerRelationCreated
    \/ \E k \in KafkaProviderStates : KafkaRelationChanged(k)
    \/ \E r \in ClientRels, c \in ClientStates : ClientRelationChanged(r, c)
    \/ \E u \in Observed, p \in OnePassword, ok \in Bools : OnStart(u, p, ok)
    \/ \E u \in Observed, ok1 \in Bools, ok2 \in Bools : OnKafkaTopicCreated(u, ok1, ok2)
    \/ \E u \in Observed, r \in ClientRels, p \in Passwords, ok \in Bools :
           OnSubjectRequested(u, r, p, ok)

SpecProvider == Init /\ [][NextProvider]_vars

\* Password rotation: the leader bootstraps, the unit comes up, the brokers
\* and the service come and go, and the operator runs set-password.
NextPassword ==
    \/ PeerRelationCreated
    \/ \E k \in KafkaProviderStates : KafkaRelationChanged(k)
    \/ BrokersChange
    \/ \E u \in Observed : ServiceStops(u)
    \/ \E u \in Units, p \in OnePassword, ok \in Bools : OnStart(u, p, ok)
    \/ \E u \in Observed, ok1 \in Bools, ok2 \in Bools : OnKafkaTopicCreated(u, ok1, ok2)
    \/ \E u \in Observed, n \in AuthUsers, p \in Passwords, ok \in Bools :
           OnSetPassword(u, n, p, ok)
    \/ \E u \in Observed : OnGetPassword(u)

SpecPassword == Init /\ [][NextPassword]_vars

\* The guards of the handlers: unit 0, as leader and as follower, runs every
\* handler that writes the cluster store while the relations and the client
\* come and go.
NextGuards ==
    \/ PeerRelationCreated
    \/ \E k \in KafkaProviderStates : KafkaRelationChanged(k)
    \/ TlsRelationEstablished
    \/ TlsRelationRemoved
    \/ \E r \in ClientRels, c \in ClientRestartStates : ClientRelationChanged(r, c)
    \/ \E u \in Units, p \in OnePassword, ok \in Bools : OnStart(u, p, ok)
    \/ \E u \in Observed, ok1 \in Bools, ok2 \in Bools : OnKafkaTopicCreated(u, ok1, ok2)
    \/ \E u \in Observed : OnTlsRelationCreated(u)
    \/ \E u \in Observed, ok \in Bools : OnTlsRelationBroken(u, ok)
    \/ \E u \in Observed, r \in ClientRels, p \in OnePassword, ok \in Bools :
           OnSubjectRequested(u, r, p, ok)
    \/ \E u \in Observed, r \in ClientRels, n \in PlannedUnits :
           OnClientRelationBroken(u, r, n)
    \/ \E u \in Observed, n \in INTERNAL_USERS, p \in Passwords \ OnePassword,
          ok \in Bools : OnSetPassword(u, n, p, ok)

\* The charm's config options are set from the beginning.
InitGuards == Init /\ cfg = CfgSet

\* Unit 0, whose handlers are followed, is not the leader.
InitFollower == InitGuards /\ leader # 0

SpecGuards == InitFollower /\ [][NextGuards]_vars

\* The restart lock: unit 0 comes up, serves a client, is granted the lock
\* and runs the restart callback while its service and Kafka come and go.
NextLock ==
    \/ PeerRelationCreated
    \/ \E k \in KafkaProviderStates : KafkaRelationChanged(k)
    \/ \E u \in Observed : ServiceStops(u)
    \/ \E r \in ClientRels, c \in ClientRestartStates : ClientRelationChanged(r, c)
    \/ \E u \in Observed, p \in OnePassword, ok \in Bools : OnStart(u, p, ok)
    \/ \E u \in Observed, ok1 \in Bools, ok2 \in Bools : OnKafkaTopicCreated(u, ok1, ok2)
    \/ \E u \in Observed, r \in ClientRels, p \in OnePassword, ok \in Bools :
           OnSubjectRequested(u, r, p, ok)
    \/ \E u \in Observed : GrantLock(u)
    \/ \E u \in Observed, ok \in Bools : RunWithLock(u, ok)

\* Unit 0 is the leader and the config options are set.
InitLock == InitGuards /\ leader = 0

SpecLock == InitLock /\ [][NextLock]_vars

\* The unit that was granted the lock gets to run its callback: the grant
\* reaches it as a relation-changed hook, and Juju runs every hook it queued.
SpecLockFair ==
    SpecLock /\ \A u \in Observed : WF_vars(\E ok \in Bools : RunWithLock(u, ok))

\* The external calls of a handler succeed.
Succeeds == {TRUE}

\* Both units come up and handle the events of a client that comes and
\* goes, while the leadership moves between them.
NextConverge ==
    \/ PeerRelationCreated
    \/ \E k \in KafkaProviderStates \ {KafkaUnrelated} : KafkaRelationChanged(k)
    \/ \E r \in ClientRels, c \in ClientRestartStates : ClientRelationChanged(r, c)
    \/ \E u \in Units : LeaderElected(u)
    \/ \E u \in Units, p \in OnePassword, ok \in Succeeds : OnStart(u, p, ok)
    \/ \E u \in Units, ok1 \in Succeeds, ok2 \in Succeeds : OnKafkaTopicCreated(u, ok1, ok2)
    \/ \E u \in Units, r \in ClientRels, p \in OnePassword, ok \in Succeeds :
           OnSubjectRequested(u, r, p, ok)
    \/ \E u \in Units, r \in ClientRels, n \in PlannedUnits \ {0} :
           OnClientRelationBroken(u, r, n)

SpecConverge == InitLock /\ [][NextConverge]_vars

\* Every unit gets to run the hooks of the client's relation: Juju queues an
\* event for each change of the relation and dispatches every event it
\* queued, deferred ones included.
SpecConvergeFair ==
    /\ SpecConverge
    /\ \A u \in Units :
        /\ SF_vars(\E r \in ClientRels, p \in OnePassword, ok \in Succeeds :
                       OnSubjectRequested(u, r, p, ok))
        /\ SF_vars(\E r \in ClientRels, n \in PlannedUnits \ {0} :
                       OnClientRelationBroken(u, r, n))

\* The life of a client on unit 0: it asks for a subject, is served with one
\* generated password or another, and leaves.
NextTenant ==
    \/ PeerRelationCreated
    \/ \E k \in KafkaProviderStates : KafkaRelationChanged(k)
    \/ \E r \in ClientRels, c \in ClientRestartStates : ClientRelationChanged(r, c)
    \/ \E u \in Observed, p \in OnePassword, ok \in Bools : OnStart(u, p, ok)
    \/ \E u \in Observed, ok1 \in Bools, ok2 \in Bools : OnKafkaTopicCreated(u, ok1, ok2)
    \/ \E u \in Observed, r \in ClientRels, p \in Passwords, ok \in Bools :
           OnSubjectRequested(u, r, p, ok)
    \/ \E u \in Observed, r \in ClientRels, n \in PlannedUnits :
           OnClientRelationBroken(u, r, n)

SpecTenant == InitLock /\ [][NextTenant]_vars

\* Deferrals: unit 0 handles start, config-changed and the client's events
\* before and after their preconditions hold.
NextDefer ==
    \/ PeerRelationCreated
    \/ \E k \in KafkaProviderStates : KafkaRelationChanged(k)
    \/ \E r \in ClientRels, c \in ClientRestartStates : ClientRelationChanged(r, c)
    \/ \E u \in Units, p \in OnePassword, ok \in Bools : OnStart(u, p, ok)
    \/ \E u \in Observed, ok \in Bools : OnConfigChanged(u, ok)
    \/ \E u \in Observed, ok1 \in Bools, ok2 \in Bools : OnKafkaTopicCreated(u, ok1, ok2)
    \/ \E u \in Observed, r \in ClientRels, p \in OnePassword, ok \in Bools :
           OnSubjectRequested(u, r, p, ok)
    \/ \E u \in Observed, r \in ClientRels, n \in PlannedUnits :
           OnClientRelationBroken(u, r, n)

SpecDefer == InitGuards /\ [][NextDefer]_vars

\* ------------------------------------------------------------------ claims

\* C1: handling certificate_available with a signing request that is not the
\* unit's stored CSR leaves every unit's stored certificate, CA and key,
\* certificate and CA files as they were; and whenever a unit's stored
\* certificate or certificate file changes to a certificate, that certificate
\* was signed for the CSR the unit had stored.
C1_CsrCertificateBinding ==
    [][/\ (ev'.kind = "certificate_available" /\ ev'.csr # server[ev'.unit].csr)
            => (server' = server /\ disk' = disk)
       /\ \A u \in Units :
            /\ (server'[u].certificate # server[u].certificate
                    /\ server'[u].certificate # NoCert)
                 => server'[u].certificate.csr = server[u].csr
            /\ (disk'[u].certfile # disk[u].certfile /\ disk'[u].certfile # NoFile)
                 => Content(disk'[u].certfile).csr = server[u].csr]_vars

\* C1 witness: a unit that holds an installed certificate has just turned
\* away a certificate signed for a request other than its stored CSR.
C1_Witness ==
    /\ ev.kind = "certificate_available"
    /\ ev.outcome = "rejected"
    /\ ev.csr # server[ev.unit].csr
    /\ server[ev.unit].csr # NoCsr
    /\ server[ev.unit].certificate # NoCert
    /\ disk[ev.unit].certfile = File(server[ev.unit].certificate)

\* The authorization file that holds exactly the operator, hashed from
\* password, with the one permission Write on ".*".
OperatorOnly(password) ==
    File([users |-> <<mkpasswd(ADMIN_USER, password)>>,
          permissions |-> <<[username |-> ADMIN_USER, operation |-> "Write",
                             resource |-> <<".*">>]>>])

\* C9: a start hook that completes on the leader of a cluster with a peer
\* relation, no authorization file and no published credentials leaves the
\* authorization state with the single principal operator holding the single
\* permission Write on ".*", the authorization file with exactly that
\* content, and the operator's password published in the cluster store.
C9_BootstrapCreatesOperator ==
    [][(/\ ev'.kind = "start" /\ ev'.outcome = "done"
        /\ ev'.unit = leader /\ peer
        /\ authfile[leader] = NoFile
        /\ cluster.passwords[ADMIN_USER] = NoPassword)
       => /\ cluster'.passwords[ADMIN_USER] \in Passwords
          /\ authfile'[leader] = OperatorOnly(cluster'.passwords[ADMIN_USER])
          /\ Len(load_authfile(authfile'[leader])) = 1
          /\ load_authfile(authfile'[leader])[1].username = ADMIN_USER
          /\ Len(load_authfile(authfile'[leader])[1].acls) = 1]_vars

\* C9 witness: the leader has just bootstrapped from an empty cluster.
C9_Witness ==
    /\ ev.kind = "start" /\ ev.bootstrapped /\ ev.unit = leader
    /\ cluster.passwords[ADMIN_USER] # NoPassword
    /\ authfile[leader] = OperatorOnly(cluster.passwords[ADMIN_USER])
    /\ \A u \in Units \ {leader} : authfile[u] = NoFile

\* C10: a start hook changes the published internal credentials or writes an
\* authorization file only on the leader and only when no operator password
\* is published; a published password is never changed by a start hook.
C10_BootstrapAtMostOnce ==
    [][ev'.kind = "start" =>
         /\ (cluster'.passwords # cluster.passwords \/ authfile' # authfile)
              => (ev'.unit = leader /\ cluster.passwords[ADMIN_USER] = NoPassword)
         /\ cluster.passwords[ADMIN_USER] # NoPassword
              => cluster'.passwords = cluster.passwords]_vars

\* C10 witness: after the bootstrap and a change of leadership, the new
\* leader has run its start hook and the published password is the one the
\* first leader generated.
C10_Witness ==
    /\ ev.kind = "start" /\ ~ev.bootstrapped /\ ev.outcome = "done"
    /\ ev.unit = leader
    /\ cluster.passwords[ADMIN_USER] # NoPassword
    /\ authfile[leader] = NoFile
    /\ \E u \in Units \ {leader} :
           authfile[u] = OperatorOnly(cluster.passwords[ADMIN_USER])


\* C2: a handler restarts the workload of a unit only while that unit holds
\* the restart lock.
C2_RestartOnlyUnderLock ==
    [][ev'.restarted => lock[ev'.unit] = "granted"]_vars

\* C3: a config-changed pass that detects no drift does not restart the
\* running workload.
C3_NoRestartWithoutDrift ==
    [][(ev'.kind = "config_changed" /\ ev'.drift = "no") => ~ev'.restarted]_vars

\* Two documents differ in at least one field.
FieldsDiffer(d1, d2) ==
    \/ DOMAIN d1 # DOMAIN d2
    \/ \E k \in DOMAIN d1 : d1[k] # d2[k]

FlagsDiffer == (cluster.tls = "enabled") # (kafka.tls = "enabled")

\* C5: whenever a unit with a peer and a Kafka relation reconciles while the
\* group's TLS flag and Kafka's (enabled or unset) differ, its status is the
\* TLS-mismatch status, whatever else is missing.
C5_TlsMismatchFirst ==
    [][(/\ ev'.kind = "config_changed" /\ peer /\ kafka.related
        /\ kafka.tls \in {"", "enabled"} /\ FlagsDiffer)
         => status'[ev'.unit] = KAFKA_TLS_MISMATCH]_vars

\* The status the first unmet precondition calls for: peer relation, Kafka
\* relation, Kafka data, TLS flags, internal credentials.
FirstUnmet ==
    IF ~peer THEN NO_PEER_RELATION
    ELSE IF ~kafka.related THEN KAFKA_NOT_RELATED
    ELSE IF \E f \in {"topic", "username", "password", "endpoints"} : kafka[f] = ""
    THEN KAFKA_NO_DATA
    ELSE IF FlagsDiffer THEN KAFKA_TLS_MISMATCH
    ELSE IF cluster.passwords[ADMIN_USER] = NoPassword THEN NO_CREDS
    ELSE ACTIVE

\* C6: after config-changed, Kafka's TLS flag being enabled or unset, the
\* unit's status is the one of the first unmet precondition, active when
\* there is none, and the event is deferred whenever the status is not
\* active.
C6_ConfigChangedStatus ==
    [][(ev'.kind = "config_changed" /\ kafka.tls \in {"", "enabled"})
         => /\ status'[ev'.unit] = FirstUnmet
            /\ (status'[ev'.unit] # ACTIVE <=> ev'.outcome = "deferred")]_vars

\* C7: with the peer relation and Kafka's data in place, a reconciliation
\* reports the TLS mismatch exactly when the group's flag and Kafka's flag
\* (enabled, or disabled or unset) differ.
C7_MismatchIffFlagsDiffer ==
    [][(ev'.kind = "config_changed" /\ peer /\ kafka.related /\ kafka_ready)
         => (status'[ev'.unit] = KAFKA_TLS_MISMATCH <=> FlagsDiffer)]_vars

\* C8: a health check on a unit that is ready to start succeeds exactly when
\* the brokers are reachable and the service is active; it leaves the status
\* "karapace service not running" when the service is down and "unit not
\* connected to kafka" when the service is up and the brokers are not
\* reachable.
C8_HealthyIffReachableAndActive ==
    [][(ev'.healthy # "n/a" /\ ready_to_start = ACTIVE)
         => /\ ev'.healthy = "yes" <=> (kafka_up /\ service[ev'.unit])
            /\ ~service[ev'.unit] => status'[ev'.unit] = SERVICE_NOT_RUNNING
            /\ (service[ev'.unit] /\ ~kafka_up)
                 => status'[ev'.unit] = KAFKA_NOT_CONNECTED]_vars

\* The entry of a user in an auth_dict (<<>> when there is none), and whether
\* a written authfile names a user in either of its sections.
EntryOf(ad, username) == SelectSeq(ad, LAMBDA e : e.username = username)
FileNames(file, username) ==
    \/ \E i \in 1 .. Len(Content(file).users) : Content(file).users[i].username = username
    \/ \E i \in 1 .. Len(Content(file).permissions) :
           Content(file).permissions[i].username = username

\* C12: add_user with replace=false on a username the object already holds
\* makes no hashing call and leaves the whole authorization state as it was;
\* a second add_user with the arguments of a completed first one changes
\* nothing.
C12_AddUserIdempotent ==
    [][(ev'.kind = "add_user" /\ ~ev'.replace)
         => /\ HasUser(auth_dict, ev'.username)
                 => (auth_dict' = auth_dict /\ ~ev'.hashed)
            /\ (/\ ev.kind = "add_user" /\ ev.outcome = "done"
                /\ ev.username = ev'.username /\ ev.password = ev'.password
                /\ ev.replace = ev'.replace)
                 => auth_dict' = auth_dict]_vars

\* add_user with replace=false and another password was just called on a user
\* that holds permissions, and the user still holds them.
C12_Witness ==
    /\ ev.kind = "add_user" /\ ~ev.replace /\ ~ev.hashed
    /\ \E i \in 1 .. Len(auth_dict) :
           /\ auth_dict[i].username = ev.username
           /\ auth_dict[i].acls # <<>>
           /\ auth_dict[i].credentials.password_hash[3] # ev.password

\* C13: remove_user takes the user's entry (credentials and permissions
\* together) out of the object and leaves the other entries alone; a user that
\* is not in the object stays out unless add_user adds it or a new object is
\* loaded; and write_authfile names no user that is not in the object, in
\* neither section of the file.
C13_RemovedUserStaysOut ==
    [][/\ ev'.kind = "remove_user"
            => /\ ~HasUser(auth_dict', ev'.username)
               /\ \A n \in AuthUsers \ {ev'.username} :
                      EntryOf(auth_dict', n) = EntryOf(auth_dict, n)
       /\ \A n \in AuthUsers :
              (/\ ~HasUser(auth_dict, n)
               /\ ~(ev'.kind = "add_user" /\ ev'.username = n)
               /\ ev'.kind # "load_authfile")
                  => ~HasUser(auth_dict', n)
       /\ ev'.kind = "write_authfile"
            => \A n \in AuthUsers :
                   ~HasUser(auth_dict, n) => ~FileNames(authfile'[ev'.unit], n)]_vars

\* A user that was written to the file with permissions has just been removed
\* from the object, which still holds another user with permissions.
C13_Witness ==
    /\ ev.kind = "remove_user"
    /\ ~HasUser(auth_dict, ev.username)
    /\ authfile[ev.unit] # NoFile
    /\ \E i \in 1 .. Len(Content(authfile[ev.unit]).permissions) :
           Content(authfile[ev.unit]).permissions[i].username = ev.username
    /\ \E i \in 1 .. Len(auth_dict) : auth_dict[i].acls # <<>>

\* C14: loading the file that write_authfile writes for the object's
\* authorization state gives that authorization state back: the same users in
\* the same order, each with the same credentials and permission list.
C14_AuthfileRoundTrip ==
    load_authfile(write_authfile(auth_dict)) = auth_dict

\* An object with two users, the first with the two user-role permissions and
\* the second with the admin permission, has been written and loaded back.
C14_Witness ==
    /\ ev.kind = "load_authfile"
    /\ Len(auth_dict) = 2
    /\ Len(auth_dict[1].acls) = 2
    /\ Len(auth_dict[2].acls) = 1
    /\ authfile[ev.unit] = write_authfile(auth_dict)

\* C18: add_acl with a role that is neither "admin" nor "user" leaves the
\* authorization state, and so the user's permission list, as it was.
C18_UnknownRoleRejected ==
    [][(ev'.kind = "add_acl" /\ ev'.role \notin {"admin", "user"})
         => auth_dict' = auth_dict]_vars

\* The permissions a written authfile holds for a user, in the file's order.
FilePermissions(file, username) ==
    SelectSeq(Content(file).permissions, LAMBDA a : a.username = username)

\* C11: when subject-requested completes for a client relation that asks for
\* the role "user" and subject S, the authfile holds for "relation-<id>" one
\* user entry and exactly the two permissions Read on "Config:" and Read on
\* "Subject:S.*"; when it asks for the role "admin", exactly the one
\* permission Write on ".*".
C11_TenantPermissions ==
    [][\A r \in ClientRels :
        (/\ ev'.kind = "subject_requested" /\ ev'.lock_requested
         /\ ev'.username = rel_user(r))
          => LET file == authfile'[ev'.unit]
                 name == rel_user(r)
             IN  /\ Len(SelectSeq(Content(file).users, LAMBDA c : c.username = name)) = 1
                 /\ clients[r].extra_user_roles = "user"
                      => FilePermissions(file, name) =
                           <<[username |-> name, operation |-> "Read",
                              resource |-> <<"Config:">>],
                             [username |-> name, operation |-> "Read",
                              resource |-> <<"Subject:", clients[r].subject, ".*">>]>>
                 /\ clients[r].extra_user_roles = "admin"
                      => FilePermissions(file, name) =
                           <<[username |-> name, operation |-> "Write",
                              resource |-> <<".*">>]>>]_vars

\* A client that was provisioned before has just been provisioned again, as a
\* user, and the file holds its two permissions next to the operator's.
C11_Witness ==
    /\ ev.kind = "subject_requested" /\ ev.lock_requested /\ ev.role = "user"
    /\ provided[5000].username = ev.username
    /\ Len(FilePermissions(authfile[ev.unit], ev.username)) = 2
    /\ Len(FilePermissions(authfile[ev.unit], ADMIN_USER)) = 1
    /\ lock[ev.unit] = "acquire"

\* C19: the super-user set that subject-requested publishes is the internal
\* users together with exactly the users "relation-<id>" of the client
\* relations that advertise the admin role and had a password published in
\* the cluster store when the set was computed.
C19_SuperUsers ==
    [][(ev'.kind = "subject_requested" /\ ev'.lock_requested)
         => cluster'.super_users =
              INTERNAL_USERS \cup
              {rel_user(r) : r \in {x \in ClientRels :
                  /\ clients[x].related
                  /\ clients[x].extra_user_roles \in {"admin", "admin,user"}
                  /\ cluster.client_passwords[x] # NoPassword}}]_vars

\* An admin client whose password was published by an earlier request is in
\* the published super-user set.
C19_Witness ==
    /\ ev.kind = "subject_requested" /\ ev.lock_requested /\ ev.role = "admin"
    /\ cluster.super_users = INTERNAL_USERS \cup {"relation-5000"}

\* C15: set-password for "operator" with a secret that is known for no
\* internal user, on the leader with the unit ready, its service active and
\* the brokers reachable, completes and publishes the secret; the same action
\* run again with the same secret is rejected and leaves the authfile and the
\* cluster store, the published secret included, as they were.
C15_SecretReuseRejected ==
    [][(ev'.kind = "set_password" /\ ev'.username = ADMIN_USER)
         => /\ (/\ leader = ev'.unit /\ ready_to_start = ACTIVE /\ service[ev'.unit]
                /\ kafka_up /\ ev'.outcome # "failed"
                /\ \A x \in INTERNAL_USERS : cluster.passwords[x] # ev'.password)
                 => (/\ ev'.outcome = "done"
                     /\ cluster'.passwords[ADMIN_USER] = ev'.password)
            /\ (/\ ev.kind = "set_password" /\ ev.outcome = "done"
                /\ ev.username = ADMIN_USER /\ ev.unit = ev'.unit
                /\ ev.password = ev'.password)
                 => (/\ ev'.outcome = "rejected"
                     /\ authfile' = authfile /\ cluster' = cluster
                     /\ cluster.passwords[ADMIN_USER] = ev.password)]_vars

\* The operator's secret was rotated away from the bootstrap secret, and the
\* same rotation has just been rejected.
C15_Witness ==
    /\ ev.kind = "set_password" /\ ev.outcome = "rejected" /\ ev.healthy = "yes"
    /\ ev.username = ADMIN_USER
    /\ cluster.passwords[ADMIN_USER] = ev.password
    /\ ev.password = 2
    /\ authfile[ev.unit] # NoFile
    /\ Content(authfile[ev.unit]).users[1].password_hash[3] = ev.password

\* C16: set-password returns no secret and leaves the authfile and the cluster
\* store as they were when it runs on a unit that is not the leader, on a unit that
\* is not healthy (not ready to start, service not active, or brokers not
\* reachable), or for a username that is not an internal user; otherwise,
\* for a secret that is not yet known, it writes the user with the new
\* credential and the admin permission to the authfile, publishes the secret
\* and returns it.
C16_SetPasswordGuards ==
    [][ev'.kind = "set_password"
         => LET u == ev'.unit
                refused == \/ leader # u
                           \/ ready_to_start # ACTIVE \/ ~service[u] \/ ~kafka_up
                           \/ ev'.username \notin INTERNAL_USERS
                known == \E x \in INTERNAL_USERS : cluster.passwords[x] = ev'.password
            IN  /\ refused => (/\ ev'.result = NoPassword
                               /\ authfile' = authfile /\ cluster' = cluster)
                /\ (~refused /\ ~known /\ ev'.outcome # "failed")
                     => (/\ ev'.outcome = "done"
                         /\ ev'.result = ev'.password
                         /\ cluster'.passwords[ev'.username] = ev'.password
                         /\ FilePermissions(authfile'[u], ev'.username) =
                              <<[username |-> ev'.username, operation |-> "Write",
                                 resource |-> <<".*">>]>>
                         /\ \E i \in 1 .. Len(Content(authfile'[u]).users) :
                                /\ Content(authfile'[u]).users[i].username = ev'.username
                                /\ Content(authfile'[u]).users[i].password_hash[3]
                                     = ev'.password)]_vars

C20_SetKeyRequestsCsr ==
    [][(ev'.kind = "set_tls_private_key" /\ peer /\ ev'.outcome # "failed")
         => LET u == ev'.unit IN
            /\ server'[u].private_key = ev'.key
            /\ server'[u].csr # server[u].csr
            /\ server'[u].csr.key = ev'.key
            /\ server'[u].csr \in ca_requests']_vars

\* ------------------------------------------------------------ guard clauses

\* The handlers that write shared state only on the leader.
LeaderOnlyHandlers ==
    {"start", "tls_relation_created", "tls_relation_broken", "subject_requested",
     "client_relation_broken", "set_password"}

\* C21: a run of the start, TLS relation created or broken, subject-requested,
\* client relation-broken or set-password handler on a unit that is not the
\* leader leaves the cluster store as it was, and a subject request on such a
\* unit neither calls the hashing utility nor writes the authfile.
C21_OnlyLeaderWritesShared ==
    [][(ev'.kind \in LeaderOnlyHandlers /\ ev'.unit # leader)
         => /\ cluster' = cluster
            /\ ev'.kind = "subject_requested"
                 => (authfile' = authfile /\ ~ev'.hashed /\ provided' = provided)]_vars

\* A healthy unit that is not the leader has handled a subject request while
\* the leader has published nothing for the client.
C21_Witness ==
    /\ ev.kind = "subject_requested"
    /\ ev.unit # leader
    /\ ev.healthy = "yes"
    /\ ev.outcome = "done"
    /\ cluster.client_passwords[5000] = NoPassword
    /\ authfile[ev.unit] = NoFile

\* The handlers that defer their event when a precondition is not met.
DeferringHandlers ==
    {"subject_requested", "client_relation_broken", "start", "config_changed",
     "certificate_available"}

C23_TenantRemoved ==
    [][\A r \in ClientRels :
        (/\ ev'.kind = "client_relation_broken" /\ ev'.username = rel_user(r)
         /\ ev'.unit = leader /\ ev'.healthy = "yes")
          => LET u == ev'.unit IN
             /\ authfile'[u] # NoFile
             /\ ~FileNames(authfile'[u], rel_user(r))
             /\ \A n \in AuthUsers \ {rel_user(r)} :
                    FileNames(authfile'[u], n)
                      = (authfile[u] # NoFile /\ FileNames(authfile[u], n))
             /\ cluster'.client_passwords[r] = NoPassword
             /\ cluster'.passwords = cluster.passwords
             /\ lock'[u] = "acquire"
             /\ ev'.lock_requested]_vars

\* The leader has handled the loss of a client whose principal it had written
\* and published: the operator alone is left in the authfile.
C23_Witness ==
    /\ ev.kind = "client_relation_broken"
    /\ ev.lock_requested
    /\ ~clients[5000].related
    /\ "relation-5000" \in cluster.super_users
    /\ cluster.client_passwords[5000] = NoPassword
    /\ authfile[ev.unit] # NoFile
    /\ FileNames(authfile[ev.unit], ADMIN_USER)
    /\ ~FileNames(authfile[ev.unit], "relation-5000")

\* ------------------------------------------------------------------- start

\* C24: start is deferred when a precondition is not met: without the peer
\* relation the unit's status is "no peer relation yet" and the event is
\* deferred, and on a unit that is not the leader, while no internal
\* credentials are published, the event is deferred instead of completing.
C24_StartDeferred ==
    [][ev'.kind = "start"
         => LET u == ev'.unit IN
            /\ ~peer => (ev'.outcome = "deferred" /\ status'[u] = NO_PEER_RELATION)
            /\ (peer /\ u # leader /\ cluster.passwords[ADMIN_USER] = NoPassword)
                 => ev'.outcome = "deferred"]_vars

\* C25: on start, a unit that is not the leader and whose cluster has
\* published the internal credentials writes its own authfile, holding the
\* operator with the published password and the single permission Write on
\* ".*".
C25_FollowerRendersAuthfile ==
    [][(/\ ev'.kind = "start" /\ peer /\ ev'.unit # leader
        /\ cluster.passwords[ADMIN_USER] # NoPassword)
         => LET file == authfile'[ev'.unit] IN
            /\ file # NoFile
            /\ Len(Content(file).users) = 1
            /\ Content(file).users[1].username = ADMIN_USER
            /\ Content(file).users[1].password_hash[3] = cluster.passwords[ADMIN_USER]
            /\ FilePermissions(file, ADMIN_USER) =
                 <<[username |-> ADMIN_USER, operation |-> "Write", resource |-> <<".*">>]>>]_vars

\* ------------------------------------------------------------ get-password

\* C26: get-password fails, returning no credential, on a unit that has no
\* authfile; on a unit that has one it returns the username "operator" with
\* the operator password published at that moment; it never changes the
\* state.
C26_GetPassword ==
    [][ev'.kind = "get_password"
         => LET u == ev'.unit IN
            /\ UNCHANGED <<peer, leader, cluster, kafka, cfg, kafka_up, tls_rel, tls_seen,
                           server, disk, confile, authfile, service, status, lock,
                           clients, provided, ca_requests, csr_seq, auth_dict>>
            /\ authfile[u] = NoFile
                 => (ev'.outcome = "rejected" /\ ev'.result = NoPassword /\ ev'.username = "")
            /\ authfile[u] # NoFile
                 => (/\ ev'.outcome = "done"
                     /\ ev'.username = ADMIN_USER
                     /\ ev'.result = cluster.passwords[ADMIN_USER]
                     /\ ev'.result # NoPassword)]_vars

\* get-password has returned the operator's password after a rotation.
C26_Witness ==
    /\ ev.kind = "get_password"
    /\ ev.outcome = "done"
    /\ ev.username = ADMIN_USER
    /\ ev.result = 2
    /\ cluster.passwords[ADMIN_USER] = 2
    /\ authfile[ev.unit] # NoFile

\* ------------------------------------------------------------- CSR renewal

\* C27: a unit stores one CSR, and a renewal replaces it by a new one: when
\* certificate-expiring, or the replacement of the key, runs on a unit that
\* has a private key, a stored CSR and the peer relation, and the provider
\* takes the request, the stored CSR afterwards is a CSR that was never
\* submitted before, built from the unit's key, the renewal names the CSR
\* stored before as the old one and the new one is with the provider; a
\* certificate that arrives for a CSR other than the stored one, the replaced
\* one included, is rejected; and when the key, the stored CSR or the peer
\* relation is missing the renewal changes nothing (certificate-expiring
\* leaves the databags, the requests and the files as they were, the
\* replacement of the key installs the key alone).
C27_RenewalReplacesCsr ==
    [][/\ (ev'.kind \in {"certificate_expiring", "set_tls_private_key"}
           /\ ev'.outcome # "failed")
          => LET u == ev'.unit
                 key == IF ev'.kind = "set_tls_private_key"
                        THEN ev'.key ELSE server[u].private_key
                 renews == key # NoKey /\ server[u].csr # NoCsr /\ peer
             IN  /\ renews
                      => (/\ server'[u].csr # server[u].csr
                          /\ server'[u].csr \notin ca_requests
                          /\ server'[u].csr \in ca_requests'
                          /\ server'[u].csr.key = server'[u].private_key
                          /\ ev'.csr = server[u].csr
                          /\ ca_requests' = ca_requests \cup {server'[u].csr})
                 /\ ~renews
                      => (/\ server'[u].csr = server[u].csr
                          /\ ca_requests' = ca_requests
                          /\ disk' = disk
                          /\ ev'.kind = "certificate_expiring" => server' = server)
                 /\ \A v \in Units \ {u} : server'[v] = server[v]
       /\ (ev'.kind = "certificate_available" /\ ev'.csr # server[ev'.unit].csr)
          => (ev'.outcome = "rejected" /\ server' = server /\ disk' = disk)]_vars

\* A unit that holds the certificate issued for its first CSR has renewed:
\* its stored CSR is a later one, submitted with the first named as the old.
C27_Witness ==
    /\ ev.kind = "certificate_expiring"
    /\ ev.outcome = "done"
    /\ ev.csr # NoCsr
    /\ server[ev.unit].certificate # NoCert
    /\ server[ev.unit].certificate.csr = ev.csr
    /\ server[ev.unit].csr # ev.csr
    /\ server[ev.unit].csr.key = ev.csr.key
    /\ {ev.csr, server[ev.unit].csr} \subseteq ca_requests

\* ---------------------------------------------------------- failing calls

\* C28: when the hashing utility fails in add_user, the auth_dict is as it
\* was, and the handler that called it (the leader's bootstrap on start, the
\* provisioning of a client, set-password) ends having written neither the
\* authfile nor any entry of the cluster store.
C28_HashFailureWritesNothing ==
    [][(/\ ev'.kind \in {"add_user", "start", "subject_requested", "set_password"}
        /\ ev'.outcome = "failed")
         => UNCHANGED <<auth_dict, authfile, cluster>>]_vars

\* C29: when the call to the certificates provider fails during
\* relation-joined, certificate-expiring or set-tls-private-key, the unit's
\* stored private key and stored CSR are what they were before the handler
\* ran.
C29_CaFailureKeepsTlsState ==
    [][(/\ ev'.kind \in {"tls_relation_joined", "certificate_expiring", "set_tls_private_key"}
        /\ ev'.outcome = "failed")
         => LET u == ev'.unit IN
            /\ server'[u].private_key = server[u].private_key
            /\ server'[u].csr = server[u].csr]_vars

\* ---------------------------------------------------------- TLS agreement

\* C30: Kafka's TLS flag being enabled or unset, no handler (topic-created and
\* config-changed included) starts or restarts the workload, leaving it
\* running, while the group's TLS flag differs from Kafka's.
C30_NoStartUnderTlsMismatch ==
    [][(/\ ev'.started \/ ev'.restarted
        /\ service'[ev'.unit]
        /\ kafka.tls \in {"", "enabled"})
         => ((cluster.tls = "enabled") <=> (kafka.tls = "enabled"))]_vars

\* ------------------------------------------------------------ restart lock

\* C31: a unit that was granted the restart lock eventually has it released,
\* whether the unit was unhealthy, the restart succeeded or the restart
\* failed.
C31_LockReleased ==
    \A u \in Units : (lock[u] = "granted") ~> (ev.kind = "restart" /\ ev.unit = u
                                                 /\ lock[u] = "idle")

\* The callback has attempted a restart that failed, and the lock is
\* released.
C31_Witness ==
    /\ ev.kind = "restart"
    /\ ev.restarted
    /\ ~service[ev.unit]
    /\ lock[ev.unit] = "idle"

\* C32: the callback that runs under the restart lock restarts the workload
\* only on a unit that is ready to start and whose service is active at that
\* moment; on any other unit it leaves the service alone and sets the status
\* to the condition that is not met.
C32_RestartOnlyWhenHealthy ==
    [][ev'.kind = "restart"
         => LET u == ev'.unit
                ok == ready_to_start = ACTIVE /\ service[u]
            IN  /\ ev'.restarted <=> ok
                /\ ~ok => (/\ service' = service
                           /\ status'[u] = IF ready_to_start # ACTIVE THEN ready_to_start
                                           ELSE SERVICE_NOT_RUNNING)
                /\ ok => status'[u] = ACTIVE]_vars

\* The callback ran on a unit that was ready while its service was down: no
\* restart, and the status says so.
C32_Witness ==
    /\ ev.kind = "restart"
    /\ ~ev.restarted
    /\ ev.healthy = "no"
    /\ ready_to_start = ACTIVE
    /\ ~service[ev.unit]
    /\ status[ev.unit] = SERVICE_NOT_RUNNING

\* ------------------------------------------------------ tenant credentials

\* C33: the principal of a client relation is "relation-<id>"; a completed
\* subject request for a relation whose credential is already published keeps
\* that credential, whatever password was generated, and leaves one user
\* entry for the principal; and a completed subject request that follows a
\* completed one for the same relation and role leaves the authfile, the
\* published credentials and what is provided to the client exactly as the
\* first one left them.
C33_ProvisioningIdempotent ==
    [][\A r \in ClientRels :
        (/\ ev'.kind = "subject_requested" /\ ev'.lock_requested
         /\ ev'.username = rel_user(r))
          => LET u == ev'.unit
                 name == rel_user(r)
                 file == authfile'[u]
             IN  /\ name = "relation-5000"
                 /\ provided'[r].username = name
                 /\ Len(SelectSeq(Content(file).users, LAMBDA c : c.username = name)) = 1
                 /\ cluster.client_passwords[r] # NoPassword
                      => (/\ cluster'.client_passwords[r] = cluster.client_passwords[r]
                          /\ provided'[r].password = cluster.client_passwords[r])
                 /\ (/\ ev.kind = "subject_requested" /\ ev.lock_requested
                     /\ ev.unit = u /\ ev.username = name /\ ev.role = ev'.role)
                      => (/\ authfile' = authfile
                          /\ cluster'.client_passwords = cluster.client_passwords
                          /\ cluster'.passwords = cluster.passwords
                          /\ provided' = provided)]_vars

\* A subject request was handled a second time, with another generated
\* password, for a client whose credential was published: the published
\* credential is still the first one.
C33_Witness ==
    /\ ev.kind = "subject_requested"
    /\ ev.lock_requested
    /\ ~ev.hashed
    /\ cluster.client_passwords[5000] # NoPassword
    /\ ev.password # cluster.client_passwords[5000]
    /\ provided[5000].password = cluster.client_passwords[5000]
    /\ FileNames(authfile[ev.unit], "relation-5000")

\* C34: when the application is going down (its planned unit count is 0),
\* the handler of a client's broken relation removes nothing: the authfile
\* and the cluster store stay as they were and no restart is asked for.
C34_GoingDownRemovesNothing ==
    [][(ev'.kind = "client_relation_broken" /\ ev'.planned_units = 0)
         => (/\ authfile' = authfile
             /\ cluster' = cluster
             /\ lock' = lock
             /\ ~ev'.lock_requested)]_vars

\* ------------------------------------------------------------- private key

\* C35: a unit's private key is generated only when it has none, and outlives
\* the certificates relation: relation-joined keeps a key the unit already
\* holds, relation-broken leaves the stored key as it was, and a stored key
\* is replaced by the set-tls-private-key action alone.
C35_PrivateKeyKept ==
    [][\A u \in Units :
        /\ (server[u].private_key # NoKey /\ server'[u].private_key # server[u].private_key)
             => (ev'.kind = "set_tls_private_key" /\ ev'.unit = u
                 /\ server'[u].private_key = ev'.key)
        /\ (server[u].private_key = NoKey /\ server'[u].private_key # NoKey)
             => (/\ ev'.kind \in {"tls_relation_joined", "set_tls_private_key"}
                 /\ ev'.unit = u
                 /\ server'[u].private_key = ev'.key)
        /\ ev'.kind = "tls_relation_broken"
             => server'[u].private_key = server[u].private_key]_vars

\* A unit whose key was installed earlier has joined the certificates
\* relation: it kept that key, not the generated one, and built its CSR from
\* it.
C35_Witness ==
    /\ ev.kind = "tls_relation_joined"
    /\ ev.outcome = "done"
    /\ ev.key # server[ev.unit].private_key
    /\ server[ev.unit].private_key # NoKey
    /\ server[ev.unit].csr.key = server[ev.unit].private_key
    /\ server[ev.unit].csr \in ca_requests

\* --------------------------------------------------------- authfile format

\* C36: every authfile written by write_authfile, after any sequence of
\* add_user, add_acl and remove_user, is well formed: the usernames of its
\* users section are pairwise distinct, every user has a credential, and
\* every permission names a user of the users section.
C36_AuthfileWellFormed ==
    \A u \in Units :
        authfile[u] # NoFile
          => LET users == Content(authfile[u]).users
                 permissions == Content(authfile[u]).permissions
             IN  /\ \A i, j \in 1 .. Len(users) :
                        users[i].username = users[j].username => i = j
                 /\ \A i \in 1 .. Len(users) :
                        /\ users[i].username # ""
                        /\ users[i].algorithm # "" /\ users[i].salt # ""
                        /\ users[i].password_hash # <<>>
                 /\ \A k \in 1 .. Len(permissions) :
                        \E i \in 1 .. Len(users) :
                            users[i].username = permissions[k].username

\* The object has written a file with two users, the client's before the
\* operator, and the three permissions of an admin and a user.
C36_Witness ==
    /\ ev.kind = "write_authfile"
    /\ authfile[ev.unit] # NoFile
    /\ Len(Content(authfile[ev.unit]).users) = 2
    /\ Len(Content(authfile[ev.unit]).permissions) = 3
    /\ Content(authfile[ev.unit]).users[1].username = "relation-5000"
    /\ Content(authfile[ev.unit]).users[2].username = ADMIN_USER

\* ----------------------------------------------------------- convergence

\* The authfile of unit u names the user of client relation 5000.
TenantIn(u) == authfile[u] # NoFile /\ FileNames(authfile[u], "relation-5000")

\* C37: the units' authfiles converge on the clients' principals: whatever
\* the leader adds or removes, and wherever the leadership moves, the units,
\* unless the service of one of them stays down, time and again hold the
\* principal of a client in all of their authfiles or in none.
C37_FollowersConverge ==
    []<>(\/ \A u, v \in Units : TenantIn(u) <=> TenantIn(v)
         \/ \E u \in Units : ~service[u])

\* C38: for the principal of a client that the leader's authfile holds, the
\* password published in the cluster store, and the one handed to the client
\* if any, is the password whose hash the authfile stores for the principal.
C38_PublishedMatchesInstalled ==
    \A r \in ClientRels :
        (authfile[leader] # NoFile /\ FileNames(authfile[leader], rel_user(r)))
          => \A i \in 1 .. Len(Content(authfile[leader]).users) :
                 LET c == Content(authfile[leader]).users[i] IN
                 c.username = rel_user(r)
                   => (/\ cluster.client_passwords[r] = c.password_hash[3]
                       /\ provided[r].password \in {NoPassword, c.password_hash[3]})

\* A client served with the second password was served again while the
\* first password was generated: the second one is still the one published,
\* installed and handed over.
C38_Witness ==
    /\ ev.kind = "subject_requested"
    /\ ev.lock_requested
    /\ ev.unit = leader
    /\ ev.password = 1
    /\ cluster.client_passwords[5000] = 2
    /\ provided[5000].password = 2
    /\ \E i \in 1 .. Len(Content(authfile[leader]).users) :
           /\ Content(authfile[leader]).users[i].username = "relation-5000"
           /\ Content(authfile[leader]).users[i].password_hash[3] = 2

\* ------------------------------------------------------------ TLS on disk

\* C39: whenever a certificate file is installed on a unit, the private key
\* file next to it holds the key from which the CSR of that certificate was
\* built.
C39_KeyMatchesCertificate ==
    \A u \in Units :
        disk[u].certfile # NoFile
          => (/\ disk[u].keyfile # NoFile
              /\ Content(disk[u].keyfile) = Content(disk[u].certfile).csr.key)

\* ----------------------------------------------------- TLS flag convergence

\* The certificates relation with the hooks Juju delivers for it, on a group
\* whose leader does not change.
NextFlag ==
    \/ PeerRelationCreated
    \/ TlsRelationEstablished
    \/ TlsRelationRemoved
    \/ \E u \in Units : OnTlsRelationCreated(u)
    \/ \E u \in Units, k \in Keys, ok \in Succeeds : OnTlsRelationJoined(u, k, ok)
    \/ \E u \in Units, c \in ca_requests : OnCertificateAvailable(u, c)
    \/ \E u \in Units, ok \in Bools : OnTlsRelationBroken(u, ok)

SpecFlag == Init /\ [][NextFlag]_vars

\* Juju creates the peer relation of a deployed application, delivers
\* relation-created to every unit of an established relation, and delivers
\* relation-broken to every unit of a removed one, running a failed hook
\* again.
SpecFlagFair ==
    /\ SpecFlag
    /\ WF_vars(PeerRelationCreated)
    /\ \A u \in Units :
         /\ WF_vars(OnTlsRelationCreated(u))
         /\ WF_vars(\E ok \in Bools : OnTlsRelationBroken(u, ok))

\* C40: the group's TLS flag follows the certificates relation: while the
\* relation and the peer relation exist the flag eventually reads "enabled",
\* and once the relation is gone the flag is eventually cleared.
C40_FlagTracksRelation ==
    /\ (tls_rel /\ peer) ~> (cluster.tls = "enabled" \/ ~tls_rel)
    /\ ~tls_rel ~> (cluster.tls = "" \/ tls_rel)

====
